---- MODULE Spec2Model ----
(***************************************************************************)
(* Time-interval accounting engine of procesador (core.py) and the row     *)
(* construction of the pipeline that feeds it (parsers.py, pipeline.py).   *)
(*                                                                         *)
(* A time of day (datetime.time with seconds 0, as parse_time builds it)   *)
(* is its minute of the day, 0..1439; Python's None is the value None.     *)
(* A datetime on the reference day 2000-01-01 is the number of minutes     *)
(* since that day's midnight, so "+ timedelta(days=1)" is "+ DayMin".      *)
(***************************************************************************)
EXTENDS Integers, Sequences, FiniteSets, TLC

VARIABLES eventos, cfg, no_laborado_extra, res, pc,
          registro, times_edit, modo_seguro, corr_evs,
          times, times_norm, reord, extra_registros, cena_ignorada,
          ed_times, times_snapshot, no_labor_list, no_labor_snapshot,
          dirty, bulk_plan, audit_log, before,
          nota_final, plan_devuelto, no_labor_edit, bulk_pending

\* the variables of one row of the pipeline besides the engine's own
fila_vars == <<registro, times_edit, modo_seguro, corr_evs,
               times, times_norm, reord, extra_registros, cena_ignorada>>

\* the locals of one session of the interactive editor, what it returns
\* (times_edit, nota_final, plan_devuelto, no_labor_edit) and the bulk plan
\* the pipeline keeps for the employee
editor_vars == <<ed_times, times_snapshot, no_labor_list, no_labor_snapshot,
                 dirty, bulk_plan, audit_log, before,
                 nota_final, plan_devuelto, no_labor_edit, bulk_pending>>

vars == <<eventos, cfg, no_laborado_extra, res, pc, fila_vars, editor_vars>>

None == -1

DayMin == 1440

Max(a, b) == IF a >= b THEN a ELSE b

Min(a, b) == IF a <= b THEN a ELSE b

CORR_EVENTOS ==
    {"Entrada", "Salida a comer", "Regreso de comer",
     "Salida a cenar", "Regreso de cenar", "Salida"}

(***************************************************************************)
(* core.py helpers                                                         *)
(***************************************************************************)
add_minutes(t, minutes) ==
    IF t = None THEN None ELSE (t + minutes) % DayMin

\* mutant: "nearest" rounds a tie down
round_minutes_EmpateAbajo(value_min, step, mode) ==
    IF step <= 1 THEN Max(0, value_min)
    ELSE LET v  == Max(0, value_min)
             lo == (v \div step) * step
             hi == lo + step
         IN  IF mode = "up" THEN ((v + step - 1) \div step) * step
             ELSE IF mode = "down" THEN (v \div step) * step
             ELSE IF (v - lo) > (hi - v) THEN hi ELSE lo

round_minutes(value_min, step, mode) ==
    IF step <= 1 THEN Max(0, value_min)
    ELSE LET v  == Max(0, value_min)
             lo == (v \div step) * step
             hi == lo + step
         IN  IF mode = "up" THEN ((v + step - 1) \div step) * step
             ELSE IF mode = "down" THEN (v \div step) * step
             ELSE IF (v - lo) >= (hi - v) THEN hi ELSE lo

\* mutant: equal clock times are taken as a full day apart
minutos_entre_DiaCompleto(t1, t2) ==
    IF t1 = None \/ t2 = None THEN 0
    ELSE LET dt1 == t1
             dt2 == IF t2 <= t1 THEN t2 + DayMin ELSE t2
         IN  dt2 - dt1

minutos_entre(t1, t2) ==
    IF t1 = None \/ t2 = None THEN 0
    ELSE LET dt1 == t1
             dt2 == IF t2 < t1 THEN t2 + DayMin ELSE t2
         IN  dt2 - dt1

(***************************************************************************)
(* parsers.py: a raw punch string is the sequence of the tokens that       *)
(* _TIME_RE finds in it, each <<h, m, s>> with s = None when the token has *)
(* no seconds group                                                        *)
(***************************************************************************)
parse_time(tok) ==
    LET h  == tok[1]
        mi == tok[2]
    IN  IF ~(0 <= h /\ h <= 23 /\ 0 <= mi /\ mi <= 59) THEN None
        ELSE h * 60 + mi

SeqToSet(s) == {s[i] : i \in DOMAIN s}

\* mutant: the punches are compared with their seconds
RECURSIVE parse_registro_loop_ConSegundos(_, _)
parse_registro_loop_ConSegundos(toks, k) ==
    IF k = 0 THEN <<>>
    ELSE LET found == parse_registro_loop_ConSegundos(toks, k - 1)
             t     == parse_time(toks[k])
         IN  IF t = None THEN found
             ELSE IF \E j \in 1..(k - 1) : toks[j] = toks[k] THEN found
             ELSE Append(found, t)

\* the loop over finditer, applied to the first k tokens: found (seen is its set)
RECURSIVE parse_registro_loop(_, _)
parse_registro_loop(toks, k) ==
    IF k = 0 THEN <<>>
    ELSE LET found == parse_registro_loop(toks, k - 1)
             t     == parse_time(toks[k])
         IN  IF t = None THEN found
             ELSE IF t \in SeqToSet(found) THEN found
             ELSE Append(found, t)

parse_registro(registro_raw) == parse_registro_loop(registro_raw, Len(registro_raw))

(***************************************************************************)
(* core.py: normalize_registro_times and map_eventos                       *)
(***************************************************************************)
SeqMax(s) == CHOOSE x \in SeqToSet(s) : \A y \in SeqToSet(s) : y <= x

SeqMin(s) == CHOOSE x \in SeqToSet(s) : \A y \in SeqToSet(s) : x <= y

\* mutant: an entry at exactly 18:00 is not late enough
wrap_likely_DespuesDe18(mins) ==
    LET entry_min   == mins[1]
        has_smaller == \E i \in 2..Len(mins) : mins[i] < entry_min
        span        == SeqMax(mins) - SeqMin(mins)
    IN  (entry_min > 18 * 60 /\ has_smaller) \/ (has_smaller /\ span > 12 * 60)

\* mutant: a range of exactly 12 hours already counts as overnight
wrap_likely_DoceHoras(mins) ==
    LET entry_min   == mins[1]
        has_smaller == \E i \in 2..Len(mins) : mins[i] < entry_min
        span        == SeqMax(mins) - SeqMin(mins)
    IN  (entry_min >= 18 * 60 /\ has_smaller) \/ (has_smaller /\ span >= 12 * 60)

\* wrap_likely of a list of at least 2 punches
wrap_likely(mins) ==
    LET entry_min   == mins[1]
        has_smaller == \E i \in 2..Len(mins) : mins[i] < entry_min
        span        == SeqMax(mins) - SeqMin(mins)
    IN  (entry_min >= 18 * 60 /\ has_smaller) \/ (has_smaller /\ span > 12 * 60)

\* mutant: the punches equal to the first one are moved to the next day too
Adjusted_Inclusive(m, entry_min, wrap) ==
    m + (IF wrap /\ m <= entry_min THEN 1440 ELSE 0)

\* adj of the punch m
Adjusted(m, entry_min, wrap) ==
    m + (IF wrap /\ m < entry_min THEN 1440 ELSE 0)

\* sorted(adjusted, key=(adj, idx)): the entries arrive in index order, so
\* each goes after every entry whose adj is <= its own
RECURSIVE InsertByAdj(_, _)
InsertByAdj(ordered, x) ==
    IF ordered = <<>> THEN <<x>>
    ELSE IF x[1] < Head(ordered)[1] THEN <<x>> \o ordered
    ELSE <<Head(ordered)>> \o InsertByAdj(Tail(ordered), x)

RECURSIVE SortAdjusted(_, _)
SortAdjusted(adjusted, k) ==
    IF k = 0 THEN <<>>
    ELSE InsertByAdj(SortAdjusted(adjusted, k - 1), adjusted[k])

\* mutant: the flag is also raised whenever the overnight heuristic fires
normalize_registro_times_MarcaCruce(ts) ==
    IF Len(ts) < 2 THEN <<ts, FALSE>>
    ELSE LET mins     == ts
             wrap     == wrap_likely(mins)
             adjusted == [i \in 1..Len(ts) |-> <<Adjusted(mins[i], mins[1], wrap), ts[i]>>]
             ordered  == SortAdjusted(adjusted, Len(adjusted))
             out      == [i \in 1..Len(ts) |-> ordered[i][2]]
         IN  <<out, out # ts \/ wrap>>

\* <<out, reordered>>
normalize_registro_times(ts) ==
    IF Len(ts) < 2 THEN <<ts, FALSE>>
    ELSE LET mins     == ts
             wrap     == wrap_likely(mins)
             adjusted == [i \in 1..Len(ts) |-> <<Adjusted(mins[i], mins[1], wrap), ts[i]>>]
             ordered  == SortAdjusted(adjusted, Len(adjusted))
             out      == [i \in 1..Len(ts) |-> ordered[i][2]]
         IN  <<out, out # ts>>

\* mutant: only the first six punches are used, the sixth as the exit
map_eventos_PrimerasSeis(ts) ==
    LET n      == Len(ts)
        middle == SubSeq(ts, 2, n - 1)
        mid(i) == IF i <= Len(middle) /\ i <= 4 THEN middle[i] ELSE None
        extra  == Max(0, n - 6)
    IN  IF n = 0 THEN <<[k \in CORR_EVENTOS |-> None], extra>>
        ELSE IF n = 1
             THEN <<[k \in CORR_EVENTOS |-> IF k = "Entrada" THEN ts[1] ELSE None], extra>>
        ELSE <<[k \in CORR_EVENTOS |->
                  CASE k = "Entrada"          -> ts[1]
                    [] k = "Salida a comer"   -> mid(1)
                    [] k = "Regreso de comer" -> mid(2)
                    [] k = "Salida a cenar"   -> mid(3)
                    [] k = "Regreso de cenar" -> mid(4)
                    [] k = "Salida"           -> ts[Min(n, 6)]],
                extra>>

\* <<the six slots, _extra_registros>>
map_eventos(ts) ==
    LET n      == Len(ts)
        middle == SubSeq(ts, 2, n - 1)
        mid(i) == IF i <= Len(middle) /\ i <= 4 THEN middle[i] ELSE None
        extra  == Max(0, n - 6)
    IN  IF n = 0 THEN <<[k \in CORR_EVENTOS |-> None], extra>>
        ELSE IF n = 1
             THEN <<[k \in CORR_EVENTOS |-> IF k = "Entrada" THEN ts[1] ELSE None], extra>>
        ELSE <<[k \in CORR_EVENTOS |->
                  CASE k = "Entrada"          -> ts[1]
                    [] k = "Salida a comer"   -> mid(1)
                    [] k = "Regreso de comer" -> mid(2)
                    [] k = "Salida a cenar"   -> mid(3)
                    [] k = "Regreso de cenar" -> mid(4)
                    [] k = "Salida"           -> ts[n]],
                extra>>

(***************************************************************************)
(* calcular_trabajado: meal and dinner deductions                          *)
(***************************************************************************)
\* mutant: a meal of exactly the ceiling is charged in full
ComidaDed_Estricto(ev, c) ==
    LET sal     == ev["Salida"]
        sal_com == ev["Salida a comer"]
        reg_com == ev["Regreso de comer"]
    IN  IF sal_com # None /\ (reg_com # None \/ sal # None)
        THEN LET fin_real == IF reg_com # None THEN reg_com ELSE sal
                 dur_real == minutos_entre(sal_com, fin_real)
                 umbral   == c.umbral_comida_media_hora_min
             IN  IF dur_real < umbral
                 THEN LET ded == Min(dur_real, c.tope_descuento_comida_min)
                      IN  <<ded, add_minutes(sal_com, ded)>>
                 ELSE <<dur_real, fin_real>>
        ELSE <<0, None>>

\* <<comida_ded, comida_fin_ventana>>
ComidaDed(ev, c) ==
    LET sal     == ev["Salida"]
        sal_com == ev["Salida a comer"]
        reg_com == ev["Regreso de comer"]
    IN  IF sal_com # None /\ (reg_com # None \/ sal # None)
        THEN LET fin_real == IF reg_com # None THEN reg_com ELSE sal
                 dur_real == minutos_entre(sal_com, fin_real)
                 umbral   == c.umbral_comida_media_hora_min
             IN  IF dur_real <= umbral
                 THEN LET ded == Min(dur_real, c.tope_descuento_comida_min)
                      IN  <<ded, add_minutes(sal_com, ded)>>
                 ELSE <<dur_real, fin_real>>
        ELSE <<0, None>>

\* mutant: a dinner without its return is not deducted
CenaDed_SinRegreso(ev) ==
    LET sal_cen == ev["Salida a cenar"]
        reg_cen == ev["Regreso de cenar"]
    IN  IF sal_cen # None /\ reg_cen # None THEN minutos_entre(sal_cen, reg_cen)
        ELSE 0

CenaDed(ev) ==
    LET sal     == ev["Salida"]
        sal_cen == ev["Salida a cenar"]
        reg_cen == ev["Regreso de cenar"]
    IN  IF sal_cen # None /\ reg_cen # None THEN minutos_entre(sal_cen, reg_cen)
        ELSE IF sal_cen # None /\ reg_cen = None /\ sal # None
             THEN minutos_entre(sal_cen, sal)
        ELSE 0

\* ventanas_descuento: the windows already deducted as meal and dinner
VentanasDescuento(ev, c) ==
    LET sal     == ev["Salida"]
        sal_com == ev["Salida a comer"]
        sal_cen == ev["Salida a cenar"]
        reg_cen == ev["Regreso de cenar"]
        cfv     == ComidaDed(ev, c)[2]
        vcom    == IF sal_com # None /\ cfv # None
                   THEN <<(<<sal_com, cfv>>)>> ELSE <<>>
        fin_cen == IF reg_cen # None THEN reg_cen ELSE sal
        vcen    == IF sal_cen # None /\ fin_cen # None
                   THEN <<(<<sal_cen, fin_cen>>)>> ELSE <<>>
    IN  vcom \o vcen

(***************************************************************************)
(* calcular_trabajado: the shift timeline                                  *)
(***************************************************************************)
\* ent and crosses_midnight are the closure variables of the nested helpers
_to_shift_dt(t, ent, crosses_midnight) ==
    IF crosses_midnight /\ t < ent THEN t + DayMin ELSE t

_window(ent_t, sal_t, ent, crosses_midnight) ==
    LET a == _to_shift_dt(ent_t, ent, crosses_midnight)
        b == _to_shift_dt(sal_t, ent, crosses_midnight)
    IN  <<a, IF b < a THEN b + DayMin ELSE b>>

_overlap_min(a1, a2, b1, b2, ent, crosses_midnight) ==
    IF a1 = None \/ a2 = None \/ b1 = None \/ b2 = None THEN 0
    ELSE LET A1  == _to_shift_dt(a1, ent, crosses_midnight)
             A2r == _to_shift_dt(a2, ent, crosses_midnight)
             B1  == _to_shift_dt(b1, ent, crosses_midnight)
             B2r == _to_shift_dt(b2, ent, crosses_midnight)
             A2  == IF A2r < A1 THEN A2r + DayMin ELSE A2r
             B2  == IF B2r < B1 THEN B2r + DayMin ELSE B2r
             s   == Max(A1, B1)
             e   == Min(A2, B2)
         IN  IF e <= s THEN 0 ELSE e - s

\* mutant: the minutes trimmed off a partially outside interval are not counted
_clip_to_shift_SinIgnorados(ini_t, fin_t, ent_t, sal_t, ent, crosses_midnight) ==
    LET w   == _window(ent_t, sal_t, ent, crosses_midnight)
        a0  == _to_shift_dt(ini_t, ent, crosses_midnight)
        a1r == _to_shift_dt(fin_t, ent, crosses_midnight)
        a1  == IF a1r < a0 THEN a1r + DayMin ELSE a1r
        i0  == Max(a0, w[1])
        i1  == Min(a1, w[2])
    IN  IF i1 <= i0 THEN <<>> ELSE <<i0 % DayMin, i1 % DayMin, 0>>

\* <<>> stands for the None result; otherwise <<ini, fin, ignorados>>
_clip_to_shift(ini_t, fin_t, ent_t, sal_t, ent, crosses_midnight) ==
    LET w   == _window(ent_t, sal_t, ent, crosses_midnight)
        s0  == w[1]
        s1  == w[2]
        a0  == _to_shift_dt(ini_t, ent, crosses_midnight)
        a1r == _to_shift_dt(fin_t, ent, crosses_midnight)
        a1  == IF a1r < a0 THEN a1r + DayMin ELSE a1r
        i0  == Max(a0, s0)
        i1  == Min(a1, s1)
    IN  IF i1 <= i0 THEN <<>>
        ELSE LET inside  == i1 - i0
                 total_i == a1 - a0
             IN  <<i0 % DayMin, i1 % DayMin, Max(0, total_i - inside)>>

(***************************************************************************)
(* calcular_trabajado: no-labor exceptions (clip, sort, merge, deduct)     *)
(***************************************************************************)
\* mutant: an exception without end is skipped instead of ending at the exit
RECURSIVE ClipIntervals_SinFin(_, _, _, _)
ClipIntervals_SinFin(nl, k, ent, sal) ==
    IF k = 0 THEN <<(<<>>), 0>>
    ELSE LET prev    == ClipIntervals_SinFin(nl, k - 1, ent, sal)
             ini     == nl[k][1]
             fin     == nl[k][2]
             clipped == _clip_to_shift(ini, fin, ent, sal, ent, sal < ent)
         IN  IF ini = None \/ fin = None THEN prev
             ELSE IF clipped = <<>>
                  THEN <<prev[1], prev[2] + minutos_entre(ini, fin)>>
             ELSE <<Append(prev[1], <<clipped[1], clipped[2]>>),
                    prev[2] + clipped[3]>>

\* the loop over no_laborado_extra, applied to the first k entries:
\* <<intervals, ignored_outside_shift>>
RECURSIVE ClipIntervals(_, _, _, _)
ClipIntervals(nl, k, ent, sal) ==
    IF k = 0 THEN <<(<<>>), 0>>
    ELSE LET prev    == ClipIntervals(nl, k - 1, ent, sal)
             ini     == nl[k][1]
             fin     == nl[k][2]
             fin_eff == IF fin # None THEN fin ELSE sal
             clipped == _clip_to_shift(ini, fin_eff, ent, sal, ent, sal < ent)
         IN  IF ini = None THEN prev
             ELSE IF fin_eff = None THEN prev
             ELSE IF clipped = <<>>
                  THEN <<prev[1], prev[2] + minutos_entre(ini, fin_eff)>>
             ELSE <<Append(prev[1], <<clipped[1], clipped[2]>>),
                    prev[2] + clipped[3]>>

\* list.sort(key=...) is stable: x goes after every element whose key is <= its own
RECURSIVE InsertByKey(_, _, _)
InsertByKey(sorted, x, ent) ==
    IF sorted = <<>> THEN <<x>>
    ELSE IF minutos_entre(ent, x[1]) < minutos_entre(ent, Head(sorted)[1])
         THEN <<x>> \o sorted
    ELSE <<Head(sorted)>> \o InsertByKey(Tail(sorted), x, ent)

\* mutant: the clipped intervals are merged in the order supplied
RECURSIVE SortIntervals_SinOrdenar(_, _, _)
SortIntervals_SinOrdenar(intervals, k, ent) ==
    IF k = 0 THEN <<>>
    ELSE Append(SortIntervals_SinOrdenar(intervals, k - 1, ent), intervals[k])

RECURSIVE SortIntervals(_, _, _)
SortIntervals(intervals, k, ent) ==
    IF k = 0 THEN <<>>
    ELSE InsertByKey(SortIntervals(intervals, k - 1, ent), intervals[k], ent)

\* mutant: the ends are compared as clock times, not on the shift timeline
MergeStep_RelojDePared(st, iv, ent, crosses_midnight) ==
    LET merged == st[1]
        ini    == iv[1]
        fin    == iv[2]
    IN  IF merged = <<>> THEN <<(<<iv>>), st[2]>>
        ELSE LET n        == Len(merged)
                 last_ini == merged[n][1]
                 last_fin == merged[n][2]
                 ov       == _overlap_min(last_ini, last_fin, ini, fin, ent, crosses_midnight)
             IN  IF ov > 0 \/ last_fin = ini
                 THEN <<IF fin > last_fin
                        THEN [merged EXCEPT ![n] = <<last_ini, fin>>]
                        ELSE merged,
                        st[2] + ov>>
                 ELSE <<Append(merged, iv), st[2]>>

\* mutant: the minutes two exceptions share are not counted
MergeStep_SinContar(st, iv, ent, crosses_midnight) ==
    LET merged == st[1]
        ini    == iv[1]
        fin    == iv[2]
    IN  IF merged = <<>> THEN <<(<<iv>>), st[2]>>
        ELSE LET n        == Len(merged)
                 last_ini == merged[n][1]
                 last_fin == merged[n][2]
                 ov       == _overlap_min(last_ini, last_fin, ini, fin, ent, crosses_midnight)
             IN  IF ov > 0 \/ last_fin = ini
                 THEN LET lfr == _to_shift_dt(last_fin, ent, crosses_midnight)
                          cfr == _to_shift_dt(fin, ent, crosses_midnight)
                          li  == _to_shift_dt(last_ini, ent, crosses_midnight)
                          ci  == _to_shift_dt(ini, ent, crosses_midnight)
                          lf  == IF lfr < li THEN lfr + DayMin ELSE lfr
                          cf  == IF cfr < ci THEN cfr + DayMin ELSE cfr
                      IN  <<IF cf > lf
                            THEN [merged EXCEPT ![n] = <<last_ini, fin>>]
                            ELSE merged,
                            st[2]>>
                 ELSE <<Append(merged, iv), st[2]>>

\* one iteration of the merge loop on the state <<merged, nolab_solape_interno>>
MergeStep(st, iv, ent, crosses_midnight) ==
    LET merged == st[1]
        ini    == iv[1]
        fin    == iv[2]
    IN  IF merged = <<>> THEN <<(<<iv>>), st[2]>>
        ELSE LET n        == Len(merged)
                 last_ini == merged[n][1]
                 last_fin == merged[n][2]
                 ov       == _overlap_min(last_ini, last_fin, ini, fin, ent, crosses_midnight)
             IN  IF ov > 0 \/ last_fin = ini
                 THEN LET lfr == _to_shift_dt(last_fin, ent, crosses_midnight)
                          cfr == _to_shift_dt(fin, ent, crosses_midnight)
                          li  == _to_shift_dt(last_ini, ent, crosses_midnight)
                          ci  == _to_shift_dt(ini, ent, crosses_midnight)
                          lf  == IF lfr < li THEN lfr + DayMin ELSE lfr
                          cf  == IF cfr < ci THEN cfr + DayMin ELSE cfr
                      IN  <<IF cf > lf
                            THEN [merged EXCEPT ![n] = <<last_ini, fin>>]
                            ELSE merged,
                            st[2] + ov>>
                 ELSE <<Append(merged, iv), st[2]>>

RECURSIVE MergeIntervals(_, _, _, _)
MergeIntervals(intervals, k, ent, crosses_midnight) ==
    IF k = 0 THEN <<(<<>>), 0>>
    ELSE MergeStep(MergeIntervals(intervals, k - 1, ent, crosses_midnight),
                   intervals[k], ent, crosses_midnight)

\* ov of one merged interval: the sum over ventanas_descuento
RECURSIVE OverlapVentanas(_, _, _, _, _, _)
OverlapVentanas(ini, fin, ventanas, k, ent, crosses_midnight) ==
    IF k = 0 THEN 0
    ELSE OverlapVentanas(ini, fin, ventanas, k - 1, ent, crosses_midnight)
         + _overlap_min(ini, fin, ventanas[k][1], ventanas[k][2], ent, crosses_midnight)

\* mutant: the minutes already deducted as meal or dinner are deducted again
ExtraDedOf_SinSolape(dur, ov) == dur

\* the deduction each merged interval adds to extra_ded
ExtraDedOf(dur, ov) == Max(0, dur - ov)

\* the final loop over merged: <<extra_ded, nolab_overlap_cd>>
RECURSIVE DescontarMerged(_, _, _, _, _)
DescontarMerged(merged, k, ventanas, ent, crosses_midnight) ==
    IF k = 0 THEN <<0, 0>>
    ELSE LET prev == DescontarMerged(merged, k - 1, ventanas, ent, crosses_midnight)
             ini  == merged[k][1]
             fin  == merged[k][2]
             dur  == minutos_entre(ini, fin)
             ov   == OverlapVentanas(ini, fin, ventanas, Len(ventanas), ent, crosses_midnight)
         IN  <<prev[1] + ExtraDedOf(dur, ov), prev[2] + ov>>

(***************************************************************************)
(* calcular_trabajado                                                      *)
(***************************************************************************)
Resultado(t, e, com, cen, ext, ovcd, sol, ign) ==
    [trabajado |-> t, extra |-> e, comida_ded |-> com, cena_ded |-> cen,
     extra_ded |-> ext, nolab_overlap_cd |-> ovcd,
     nolab_solape_interno |-> sol, ignored_outside_shift |-> ign]

\* mutant: the worked minutes without the clamp at 0
Trabajado_SinClamp(total, comida_ded, cena_ded, extra_ded) ==
    total - comida_ded - cena_ded - extra_ded

Trabajado(total, comida_ded, cena_ded, extra_ded) ==
    Max(0, total - comida_ded - cena_ded - extra_ded)

\* mutant: the rounding mode "none" is not honoured
Extra_SiempreRedondea(trabajado, c) ==
    LET extra == Max(0, trabajado - c.umbral_extra_min)
    IN  IF c.redondeo_extra_step_min > 1
        THEN round_minutes(extra, c.redondeo_extra_step_min, c.redondeo_extra_modo)
        ELSE extra

Extra(trabajado, c) ==
    LET extra == Max(0, trabajado - c.umbral_extra_min)
    IN  IF c.redondeo_extra_step_min # 0 /\ c.redondeo_extra_step_min > 1
           /\ c.redondeo_extra_modo # "none"
        THEN round_minutes(extra, c.redondeo_extra_step_min, c.redondeo_extra_modo)
        ELSE extra

\* mutant: only Entry is tested
FaltaEntradaOSalida_SoloEntrada(ent, sal) == ent = None

\* "if not ent or not sal": a time object is always true, None is false
FaltaEntradaOSalida(ent, sal) == ent = None \/ sal = None

calcular_trabajado(ev, c, nl) ==
    LET ent == ev["Entrada"]
        sal == ev["Salida"]
    IN  IF FaltaEntradaOSalida(ent, sal) THEN Resultado(0, 0, 0, 0, 0, 0, 0, 0)
        ELSE
        LET total            == minutos_entre(ent, sal)
            comida_ded       == ComidaDed(ev, c)[1]
            cena_ded         == CenaDed(ev)
            ventanas         == VentanasDescuento(ev, c)
            crosses_midnight == sal < ent
            clip             == ClipIntervals(nl, Len(nl), ent, sal)
            intervals        == SortIntervals(clip[1], Len(clip[1]), ent)
            mrg              == MergeIntervals(intervals, Len(intervals), ent, crosses_midnight)
            desc             == DescontarMerged(mrg[1], Len(mrg[1]), ventanas, ent, crosses_midnight)
            extra_ded        == desc[1]
            trabajado        == Trabajado(total, comida_ded, cena_ded, extra_ded)
        IN  Resultado(trabajado, Extra(trabajado, c), comida_ded, cena_ded,
                      extra_ded, desc[2], mrg[2], clip[2])

(***************************************************************************)
(* legacy.calcular_trabajado: the engine behind the editor's preview       *)
(***************************************************************************)
\* <<dur_real_min, desc_min>>; "or 60" and "or 30" replace a configured 0
legacy_calcular_descuento_comida(ev, c) ==
    LET sal     == ev["Salida"]
        sal_com == ev["Salida a comer"]
        reg_com == ev["Regreso de comer"]
        fin     == IF reg_com # None THEN reg_com ELSE sal
        dur     == minutos_entre(sal_com, fin)
        umbral  == IF c.umbral_comida_media_hora_min # 0
                   THEN c.umbral_comida_media_hora_min ELSE 60
        tope    == IF c.tope_descuento_comida_min # 0
                   THEN c.tope_descuento_comida_min ELSE 30
    IN  IF sal_com = None THEN <<0, 0>>
        ELSE IF fin = None THEN <<0, 0>>
        ELSE IF dur <= 0 THEN <<0, 0>>
        ELSE IF dur <= umbral THEN <<dur, Min(dur, tope)>>
        ELSE <<dur, dur>>

\* <<dur_real_min, desc_min>>
legacy_calcular_descuento_cena(ev) ==
    LET sal     == ev["Salida"]
        sal_cen == ev["Salida a cenar"]
        reg_cen == ev["Regreso de cenar"]
        fin     == IF reg_cen # None THEN reg_cen ELSE sal
        dur     == minutos_entre(sal_cen, fin)
    IN  IF sal_cen = None THEN <<0, 0>>
        ELSE IF fin = None THEN <<0, 0>>
        ELSE IF dur <= 0 THEN <<0, 0>>
        ELSE <<dur, dur>>

\* ventanas_descuento of the legacy engine
legacy_VentanasDescuento(ev, c) ==
    LET sal        == ev["Salida"]
        sal_com    == ev["Salida a comer"]
        reg_com    == ev["Regreso de comer"]
        sal_cen    == ev["Salida a cenar"]
        reg_cen    == ev["Regreso de cenar"]
        comida_ded == legacy_calcular_descuento_comida(ev, c)[2]
        cena_ded   == legacy_calcular_descuento_cena(ev)[2]
        fin_real   == IF reg_com # None THEN reg_com ELSE sal
        dur_real   == minutos_entre(sal_com, fin_real)
        fin_tope   == add_minutes(sal_com, comida_ded)
        fin_com    == IF dur_real > 0 /\ minutos_entre(sal_com, fin_tope) > dur_real
                      THEN fin_real ELSE fin_tope
        vcom       == IF sal_com # None /\ comida_ded > 0 /\ fin_real # None
                      THEN IF dur_real > 0 /\ comida_ded >= dur_real
                           THEN <<(<<sal_com, fin_real>>)>>
                           ELSE <<(<<sal_com, fin_com>>)>>
                      ELSE <<>>
        fin_cen    == IF reg_cen # None THEN reg_cen ELSE sal
        vcen       == IF sal_cen # None /\ cena_ded > 0 /\ fin_cen # None
                         /\ minutos_entre(sal_cen, fin_cen) > 0
                      THEN <<(<<sal_cen, fin_cen>>)>> ELSE <<>>
    IN  vcom \o vcen

\* one iteration of the legacy merge loop: _to_dt is the clock time of day 1
legacy_MergeStep(st, iv, ent, crosses_midnight) ==
    LET merged == st[1]
        ini    == iv[1]
        fin    == iv[2]
    IN  IF merged = <<>> THEN <<(<<iv>>), st[2]>>
        ELSE LET n        == Len(merged)
                 last_ini == merged[n][1]
                 last_fin == merged[n][2]
                 ov       == _overlap_min(last_ini, last_fin, ini, fin, ent, crosses_midnight)
             IN  IF ov > 0 \/ last_fin = ini
                 THEN LET lf == IF last_fin < last_ini THEN last_fin + DayMin ELSE last_fin
                          cf == IF fin < ini THEN fin + DayMin ELSE fin
                      IN  <<IF cf > lf
                            THEN [merged EXCEPT ![n] = <<last_ini, fin>>]
                            ELSE merged,
                            st[2] + ov>>
                 ELSE <<Append(merged, iv), st[2]>>

RECURSIVE legacy_MergeIntervals(_, _, _, _)
legacy_MergeIntervals(intervals, k, ent, crosses_midnight) ==
    IF k = 0 THEN <<(<<>>), 0>>
    ELSE legacy_MergeStep(legacy_MergeIntervals(intervals, k - 1, ent, crosses_midnight),
                          intervals[k], ent, crosses_midnight)

legacy_calcular_trabajado(ev, c, nl) ==
    LET ent == ev["Entrada"]
        sal == ev["Salida"]
    IN  IF ent = None \/ sal = None THEN Resultado(0, 0, 0, 0, 0, 0, 0, 0)
        ELSE
        LET total            == minutos_entre(ent, sal)
            comida_ded       == legacy_calcular_descuento_comida(ev, c)[2]
            cena_ded         == legacy_calcular_descuento_cena(ev)[2]
            ventanas         == legacy_VentanasDescuento(ev, c)
            crosses_midnight == sal < ent
            clip             == ClipIntervals(nl, Len(nl), ent, sal)
            intervals        == SortIntervals(clip[1], Len(clip[1]), ent)
            mrg              == legacy_MergeIntervals(intervals, Len(intervals), ent, crosses_midnight)
            desc             == DescontarMerged(mrg[1], Len(mrg[1]), ventanas, ent, crosses_midnight)
            extra_ded        == desc[1]
            trabajado        == Max(0, total - comida_ded - cena_ded - extra_ded)
        IN  Resultado(trabajado, Extra(trabajado, c), comida_ded, cena_ded,
                      extra_ded, desc[2], mrg[2], clip[2])

(***************************************************************************)
(* Inputs of one computation.  Times of day are drawn from small grids     *)
(* around midnight so that overnight shifts, capped and full meal windows  *)
(* and exceptions straddling midnight all occur.                           *)
(***************************************************************************)
MaxNoLab == 2

\* 00:00, 00:30, 06:10, 23:30
GridEventos == {0, 30, 370, 1410}

\* 23:40, 23:50, 00:00, 00:10
GridNoLab == {1420, 1430, 0, 10}

AppConfig(umbral_extra, step, modo, tope, umbral_comida) ==
    [umbral_extra_min |-> umbral_extra,
     redondeo_extra_step_min |-> step,
     redondeo_extra_modo |-> modo,
     tope_descuento_comida_min |-> tope,
     umbral_comida_media_hora_min |-> umbral_comida]

CfgDefault == AppConfig(480, 1, "none", 30, 60)

\* every combination of threshold, rounding and meal policy
CfgAll ==
    {AppConfig(u, r[1], r[2], m[1], m[2]) :
        u \in {0, 370, 480},
        r \in {<<1, "none">>, <<0, "up">>, <<15, "none">>, <<15, "up">>,
               <<15, "down">>, <<15, "nearest">>},
        m \in {<<30, 60>>, <<20, 60>>, <<45, 30>>, <<0, 0>>}}

EventMap(ent, sal_com, reg_com, sal_cen, reg_cen, sal) ==
    [k \in CORR_EVENTOS |->
        CASE k = "Entrada"          -> ent
          [] k = "Salida a comer"   -> sal_com
          [] k = "Regreso de comer" -> reg_com
          [] k = "Salida a cenar"   -> sal_cen
          [] k = "Regreso de cenar" -> reg_cen
          [] k = "Salida"           -> sal]

SeqsUpTo(S, n) == UNION {[1..k -> S] : k \in 0..n}

\* any event map over the grid (as left by manual corrections), at most one exception
InitEventos ==
    /\ eventos \in [CORR_EVENTOS -> GridEventos \cup {None}]
    /\ cfg \in {CfgDefault, AppConfig(0, 15, "up", 20, 60)}
    /\ no_laborado_extra \in {<<>>, <<(<<0, 30>>)>>, <<(<<1410, None>>)>>}

\* shifts around midnight with up to MaxNoLab exceptions in any order
InitNoLab ==
    /\ eventos \in {EventMap(e, mo, mi, do, di, x) :
                      e \in {1320, 0}, mo \in {None, 1420}, mi \in {None, 20},
                      do \in {None, 10}, di \in {None, 20}, x \in {360, 10}}
    /\ cfg = CfgDefault
    /\ no_laborado_extra \in
          SeqsUpTo((GridNoLab \X (GridNoLab \cup {None})) \cup {<<None, 10>>}, MaxNoLab)

\* every configuration on shifts with meal and dinner breaks and no exception
InitCfg ==
    /\ eventos \in {EventMap(e, mo, mi, do, di, x) :
                      e \in {0, 1410}, mo \in {None, 0, 30}, mi \in {None, 30, 60, 100},
                      do \in {None, 100}, di \in {None, 130}, x \in {None, 40, 370, 1380}}
    /\ cfg \in CfgAll
    /\ no_laborado_extra = <<>>

\* "bulk_plan = None": no plan
NoPlan == [source_fecha |-> <<>>, dates |-> <<>>, times |-> <<>>]

\* no editor is open: its variables stay empty
SinEditor ==
    /\ ed_times = <<>>
    /\ times_snapshot = <<>>
    /\ no_labor_list = <<>>
    /\ no_labor_snapshot = <<>>
    /\ dirty = FALSE
    /\ bulk_plan = NoPlan
    /\ audit_log = <<>>
    /\ before = <<>>
    /\ nota_final = ""
    /\ plan_devuelto = NoPlan
    /\ no_labor_edit = <<>>
    /\ bulk_pending = NoPlan

\* the engine is called on its own: the row variables stay empty
SinFila ==
    /\ registro = <<>>
    /\ times_edit = <<>>
    /\ modo_seguro = FALSE
    /\ corr_evs = <<>>
    /\ times = <<>>
    /\ times_norm = <<>>
    /\ reord = FALSE
    /\ extra_registros = 0
    /\ cena_ignorada = FALSE

\* exits minute by minute after an entry at 00:00
GridSalidas == 0 .. 40

\* every overtime from 0 to 40 under even and odd rounding steps
InitRedondeo ==
    /\ eventos \in {EventMap(0, None, None, None, None, x) : x \in GridSalidas}
    /\ cfg \in {AppConfig(u, st, mo, 30, 60) :
                  u \in {0, 7}, st \in {0, 1, 2, 10, 15},
                  mo \in {"none", "up", "down", "nearest"}}
    /\ no_laborado_extra = <<>>

Init ==
    /\ pc = "listo"
    /\ res = <<>>
    /\ SinFila
    /\ SinEditor
    /\ \/ InitEventos
       \/ InitNoLab
       \/ InitCfg
       \/ InitRedondeo

\* one call of calcular_trabajado on the record's event map and exceptions
Calcular ==
    /\ pc = "listo"
    /\ res' = calcular_trabajado(eventos, cfg, no_laborado_extra)
    /\ pc' = "calculado"
    /\ UNCHANGED <<eventos, cfg, no_laborado_extra, fila_vars, editor_vars>>

Next == Calcular

Spec == Init /\ [][Next]_vars

\* the engine on the records that carry no-labor exceptions
InitExcepciones ==
    /\ pc = "listo"
    /\ res = <<>>
    /\ SinFila
    /\ SinEditor
    /\ \/ InitEventos
       \/ InitNoLab

SpecExcepciones == InitExcepciones /\ [][Next]_vars

MaxOrden == 3

\* exceptions around midnight: equal starts, straddling, without start or end
PoolOrden ==
    {<<1420, 1430>>, <<1420, 10>>, <<1430, 0>>, <<1430, 20>>,
     <<0, 10>>, <<1420, None>>, <<None, 10>>, <<10, 1420>>}

\* overnight shifts without and with a meal across midnight, and a day shift
InitOrden ==
    /\ pc = "listo"
    /\ res = <<>>
    /\ SinFila
    /\ SinEditor
    /\ eventos \in {EventMap(1320, None, None, None, None, 30),
                     EventMap(1320, 1425, 5, None, None, 30),
                     EventMap(1400, None, None, 1435, None, 15),
                     EventMap(0, None, None, None, None, 20)}
    /\ cfg = CfgDefault
    /\ no_laborado_extra \in SeqsUpTo(PoolOrden, MaxOrden)

SpecOrden == InitOrden /\ [][Next]_vars

TypeOK ==
    /\ pc \in {"listo", "calculado"}
    /\ pc = "calculado" => res.trabajado \in Int

(***************************************************************************)
(* pipeline.py: one row, from the punches to the computed result           *)
(***************************************************************************)
\* "for ev, (t_corr, nota_corr) in corr_evs.items(): eventos[ev] = t_corr"
AplicarCorrecciones(ev, corr) ==
    [k \in CORR_EVENTOS |-> IF k \in DOMAIN corr THEN corr[k] ELSE ev[k]]

\* mutant: a dinner that starts exactly at the end of the meal is cleared too
SanidadCena_Inclusiva(ev) ==
    LET ent_t    == ev["Entrada"]
        sal_t    == ev["Salida"]
        sal_cen  == ev["Salida a cenar"]
        meal_end == IF ev["Regreso de comer"] # None THEN ev["Regreso de comer"]
                    ELSE IF ev["Salida a comer"] # None THEN sal_t ELSE None
    IN  IF ent_t # None /\ sal_t # None /\ sal_cen # None /\ meal_end # None
           /\ minutos_entre(ent_t, sal_cen) <= minutos_entre(ent_t, meal_end)
        THEN <<[ev EXCEPT !["Salida a cenar"] = None, !["Regreso de cenar"] = None], TRUE>>
        ELSE <<ev, FALSE>>

\* the sanity rule on the dinner: <<eventos, _cena_ignorada_anomalia>>
SanidadCena(ev) ==
    LET ent_t    == ev["Entrada"]
        sal_t    == ev["Salida"]
        sal_cen  == ev["Salida a cenar"]
        meal_end == IF ev["Regreso de comer"] # None THEN ev["Regreso de comer"]
                    ELSE IF ev["Salida a comer"] # None THEN sal_t ELSE None
    IN  IF ent_t # None /\ sal_t # None /\ sal_cen # None /\ meal_end # None
           /\ minutos_entre(ent_t, sal_cen) < minutos_entre(ent_t, meal_end)
        THEN <<[ev EXCEPT !["Salida a cenar"] = None, !["Regreso de cenar"] = None], TRUE>>
        ELSE <<ev, FALSE>>

\* from the punches of the row to its result, as both row builders do
ProcesarFila(ts, modo, corr, c, nl) ==
    LET nrm == IF modo THEN <<ts, FALSE>> ELSE normalize_registro_times(ts)
        mp  == map_eventos(nrm[1])
        san == SanidadCena(AplicarCorrecciones(mp[1], corr))
    IN  [times_norm |-> nrm[1], reord |-> nrm[2],
         eventos |-> san[1], extra_registros |-> mp[2], cena_ignorada |-> san[2],
         res |-> calcular_trabajado(san[1], c, nl)]

(***************************************************************************)
(* Inputs of one row: the raw punch string read from the sheet, the        *)
(* punches of a later edit, the corrections of events and the safe mode    *)
(***************************************************************************)
MaxRegistro == 4

MaxCortas == 4

MaxChecadas == 7

\* 22:00, 02:00, 22:00:12, 23:50:12, 00:10, 00:40:59, 24:00, 23:60
GridTokens ==
    {<<22, 0, None>>, <<2, 0, None>>, <<22, 0, 12>>, <<23, 50, 12>>,
     <<0, 10, None>>, <<0, 40, 59>>, <<24, 0, None>>, <<23, 60, None>>}

\* 00:59, 01:00, 13:00, 17:59, 18:00, 23:00
GridCortas == {59, 60, 780, 1079, 1080, 1380}

\* 08:00, 09:00, 22:00
GridChecadas == {480, 540, 1320}

\* 08:25 13:11 13:41 15:47, the same with a dinner, and an overnight row
FilasBase ==
    {<<505, 791, 821, 947>>,
     <<505, 791, 821, 900, 930, 947>>,
     <<1320, 1380, 30, 60, 90, 120>>}

GridCorr == {None, 638, 840}

\* the corrections of at most two events
CorrEvs ==
    UNION {[D -> GridCorr] : D \in {E \in SUBSET CORR_EVENTOS : Cardinality(E) <= 2}}

SinEventos == [k \in CORR_EVENTOS |-> None]

\* raw punch strings: invalid tokens, seconds, repeated times
InitRegistro ==
    /\ registro \in SeqsUpTo(GridTokens, MaxRegistro)
    /\ times_edit \in {<<>>, <<480, 480>>}
    /\ corr_evs = <<>>
    /\ no_laborado_extra = <<>>

\* short edited lists around the thresholds of the overnight heuristic
InitCortas ==
    /\ registro = <<>>
    /\ times_edit \in SeqsUpTo(GridCortas, MaxCortas)
    /\ corr_evs = <<>>
    /\ no_laborado_extra = <<>>

\* long edited lists, with repeated punches
InitChecadas ==
    /\ registro = <<>>
    /\ times_edit \in SeqsUpTo(GridChecadas, MaxChecadas)
    /\ corr_evs = <<>>
    /\ no_laborado_extra = <<>>

\* corrections of events on a few rows, with and without an exception
InitCorr ==
    /\ registro \in {<<>>, <<(<<22, 0, None>>), (<<2, 0, None>>)>>}
    /\ times_edit \in FilasBase
    /\ corr_evs \in CorrEvs
    /\ no_laborado_extra \in {<<>>, <<(<<840, 870>>)>>}

InitFila ==
    /\ pc = "fila"
    /\ SinEditor
    /\ cfg = CfgDefault
    /\ modo_seguro \in BOOLEAN
    /\ eventos = SinEventos
    /\ res = <<>>
    /\ times = <<>>
    /\ times_norm = <<>>
    /\ reord = FALSE
    /\ extra_registros = 0
    /\ cena_ignorada = FALSE
    /\ \/ InitRegistro
       \/ InitCortas
       \/ InitChecadas
       \/ InitCorr

AsignarFila(ts, f) ==
    /\ times' = ts
    /\ times_norm' = f.times_norm
    /\ reord' = f.reord
    /\ eventos' = f.eventos
    /\ extra_registros' = f.extra_registros
    /\ cena_ignorada' = f.cena_ignorada
    /\ res' = f.res

\* construir_salida on one row of the sheet (no interactive edit)
ConstruirFila ==
    /\ pc = "fila"
    /\ LET ts == parse_registro(registro)
       IN  AsignarFila(ts, ProcesarFila(ts, modo_seguro, corr_evs, cfg, no_laborado_extra))
    /\ pc' = "construida"
    /\ UNCHANGED <<cfg, no_laborado_extra, registro, times_edit, modo_seguro, corr_evs>>
    /\ UNCHANGED editor_vars

\* _recalcular_out_row with the punches of an edit
RecalcularFila ==
    /\ pc = "construida"
    /\ AsignarFila(times_edit,
                   ProcesarFila(times_edit, modo_seguro, corr_evs, cfg, no_laborado_extra))
    /\ pc' = "recalculada"
    /\ UNCHANGED <<cfg, no_laborado_extra, registro, times_edit, modo_seguro, corr_evs>>
    /\ UNCHANGED editor_vars

NextFila == ConstruirFila \/ RecalcularFila

MaxJornada == 3

MaxExcJornada == 2

\* 22:00, 23:45, 00:05, 00:30
GridJornada == {1320, 1425, 5, 30}

\* rows of 4 to 7 punches across midnight, a row with repeated punches and a day row
FilasLargas ==
    {<<1320, 1425, 5, 30>>,
     <<1320, 1400, 1425, 5, 30>>,
     <<1320, 1400, 1425, 5, 20, 30>>,
     <<1320, 1400, 1425, 1430, 5, 20, 30>>,
     <<1320, 1425, 1425, 5, 5, 30>>,
     <<5, 30, 1320, 1425>>}

\* exceptions around midnight, inside and outside the shift
PoolJornada ==
    {<<1420, 1430>>, <<1420, 10>>, <<1430, 20>>, <<0, 10>>, <<1420, None>>, <<None, 10>>}

\* rows with exceptions and no correction of events
InitJornada ==
    /\ pc = "fila"
    /\ SinEditor
    /\ cfg \in {CfgDefault, AppConfig(480, 1, "none", 0, 0)}
    /\ modo_seguro = FALSE
    /\ eventos = SinEventos
    /\ res = <<>>
    /\ times = <<>>
    /\ times_norm = <<>>
    /\ reord = FALSE
    /\ extra_registros = 0
    /\ cena_ignorada = FALSE
    /\ registro = <<(<<22, 0, None>>), (<<0, 40, 59>>), (<<2, 0, None>>)>>
    /\ times_edit \in SeqsUpTo(GridJornada, MaxJornada) \cup FilasLargas
    /\ corr_evs = <<>>
    /\ no_laborado_extra \in SeqsUpTo(PoolJornada, MaxExcJornada)

SpecJornada == InitJornada /\ [][NextFila]_vars

(***************************************************************************)
(* corrections.py: the interactive editor of one (employee, date) record   *)
(***************************************************************************)
MaxEdiciones == 2

\* the day of January 2026 being edited
fecha_d == 28

event_order ==
    <<"Entrada", "Salida a comer", "Regreso de comer",
      "Salida a cenar", "Regreso de cenar", "Salida">>

\* "times_edit is None": the user left without saving
SinGuardar == <<None>>

\* the string "HH:MM" as <<hour, minute>>, "" as <<>>
_fmt_hhmm(t) == IF t = None THEN <<>> ELSE <<t \div 60, t % 60>>

\* [_fmt_hhmm(t) for t in times_norm]
FmtChecadas(ts) ==
    IF ts = <<>> THEN <<>> ELSE [i \in 1..Len(ts) |-> _fmt_hhmm(ts[i])]

\* the intervals carry no label here: "HH:MM-HH:MM" as a pair of strings
_fmt_nolabor(nl) ==
    IF nl = <<>> THEN <<>>
    ELSE [i \in 1..Len(nl) |-> <<_fmt_hhmm(nl[i][1]), _fmt_hhmm(nl[i][2])>>]

\* date.isoformat() of a day of January 2026
isoformat(d) == <<2026, 1, d>>

\* legacy.normalize_registro_times has the text of core.normalize_registro_times
_normalize_times(ts, modo) ==
    IF modo THEN <<ts, FALSE>> ELSE normalize_registro_times(ts)

\* legacy.map_eventos has the text of core.map_eventos
_map_eventos(tn) == map_eventos(tn)[1]

\* _validate_times returns warnings (a time object is never out of range,
\* so it returns no error)
HayAdvertencias(ts, tn) ==
    \/ Len(ts) = 0
    \/ Len(ts) = 1
    \/ Len(ts) > 6
    \/ \E i \in 1..Len(ts) : \E j \in 1..Len(ts) : i < j /\ ts[i] = ts[j]
    \/ Len(tn) >= 2 /\ tn[Len(tn)] < tn[1]
    \/ Len(ts) >= 3 /\ ts # tn

AuditEntry(accion, campo, antes, despues) ==
    [accion |-> accion, campo |-> campo, antes |-> antes, despues |-> despues]

\* list.insert(pos, x) and del list[idx], pos and idx counted from 0
InsertAt(s, pos, x) == SubSeq(s, 1, pos) \o <<x>> \o SubSeq(s, pos + 1, Len(s))

DeleteAt(s, idx) == SubSeq(s, 1, idx) \o SubSeq(s, idx + 2, Len(s))

SetAt(s, idx, x) == [s EXCEPT ![idx + 1] = x]

\* option 1: the six slots with the edited one replaced, without the empty
\* ones, followed by times_norm[6:]
ReconstruirChecadas(evs, tn, eidx, tnew) ==
    LET core_slots == [i \in 1..6 |-> IF i = eidx + 1 THEN tnew ELSE evs[event_order[i]]]
        unused     == IF Len(tn) > 6 THEN SubSeq(tn, 7, Len(tn)) ELSE <<>>
        Presente(t) == t # None
    IN  SelectSeq(core_slots, Presente) \o unused

RECURSIVE Rango(_, _)
Rango(a, b) == IF a > b THEN <<>> ELSE <<a>> \o Rango(a + 1, b)

\* a part of the request is a date [rango |-> FALSE, a |-> d] or a range
\* [rango |-> TRUE, a |-> da, b |-> db]; None is a text that is not a date
RECURSIVE _parse_date_list_loop(_, _)
_parse_date_list_loop(parts, k) ==
    IF k = 0 THEN <<>>
    ELSE LET out == _parse_date_list_loop(parts, k - 1)
             p   == parts[k]
         IN  IF p.rango
             THEN IF p.a = None \/ p.b = None THEN out
                  ELSE out \o Rango(Min(p.a, p.b), Max(p.a, p.b))
             ELSE IF p.a # None THEN Append(out, p.a) ELSE out

\* "uniq preserve order"
RECURSIVE Uniq(_, _)
Uniq(out, k) ==
    IF k = 0 THEN <<>>
    ELSE LET final == Uniq(out, k - 1)
         IN  IF out[k] \in SeqToSet(final) THEN final ELSE Append(final, out[k])

_parse_date_list(expr) ==
    LET out == _parse_date_list_loop(expr, Len(expr))
    IN  Uniq(out, Len(out))

\* "fechas = [d for d in fechas if d != fecha_d]"
SinFechaActual(fechas) ==
    LET Otra(d) == d # fecha_d
    IN  SelectSeq(fechas, Otra)

\* the plan of option 7
PlanBulk(fechas, ts, modo) ==
    [source_fecha |-> isoformat(fecha_d),
     dates |-> [i \in 1..Len(fechas) |-> isoformat(fechas[i])],
     times |-> FmtChecadas(_normalize_times(ts, modo)[1])]

\* mutant: leaving without saving hands back the edited intervals
Salir_ListaEditada(snapshot, lista) == <<SinGuardar, "", NoPlan, lista>>

\* option 0: "return None, "", None, no_labor_snapshot"
Salir(snapshot, lista) == <<SinGuardar, "", NoPlan, snapshot>>

\* option 6: the two returns after the validation
Guardar(ts, sucio, nota, plan, lista) ==
    IF ~sucio THEN <<ts, "", plan, lista>> ELSE <<ts, nota, plan, lista>>

\* mutant: the pending bulk plan survives the revert
Revertir_ConservaPlan(ts_snap, nl_snap, plan) ==
    [times |-> ts_snap, no_labor_list |-> nl_snap, dirty |-> FALSE, bulk_plan |-> plan]

\* option 5: the locals after the revert
Revertir(ts_snap, nl_snap, plan) ==
    [times |-> ts_snap, no_labor_list |-> nl_snap, dirty |-> FALSE, bulk_plan |-> NoPlan]

\* the records opened: 09:00 18:00 without intervals, an overnight row with
\* the interval 10:00-10:15 and a row of 7 punches without intervals
RegistrosEditor ==
    {<<(<<(<<9, 0, None>>), (<<18, 0, None>>)>>), (<<>>)>>,
     <<(<<(<<22, 0, None>>), (<<2, 0, None>>)>>), (<<(<<600, 615>>)>>)>>,
     <<(<<(<<8, 0, None>>), (<<9, 0, None>>), (<<10, 0, None>>), (<<11, 0, None>>),
         (<<12, 0, None>>), (<<13, 0, None>>), (<<14, 0, None>>)>>), (<<>>)>>}

\* the times typed by the user: 12:00 and a text that is not a time
HorasNuevas == {720, None}

\* the indices typed by the user (the last one is out of range)
IndicesEditor == {1, 2, 12}

\* the position typed at an insert: 0 stands for Enter (at the end)
PosicionesEditor == {0, 1, 12}

\* the intervals typed by the user: a valid one, equal ends, a bad start
IntervalosNuevos == {<<600, 630>>, <<600, 600>>, <<None, 630>>}

NotasFinales == {"", "nota_final"}

\* the requests of option 7: nothing, the edited date alone, another date,
\* ranges (also reversed and with a bad end), a text that is not a date,
\* and a date repeated by a range
Solicitudes ==
    {<<>>,
     <<[rango |-> FALSE, a |-> 28]>>,
     <<[rango |-> FALSE, a |-> 29]>>,
     <<[rango |-> TRUE, a |-> 30, b |-> 28]>>,
     <<[rango |-> TRUE, a |-> None, b |-> 29]>>,
     <<[rango |-> FALSE, a |-> None]>>,
     <<[rango |-> FALSE, a |-> 29], [rango |-> TRUE, a |-> 28, b |-> 29]>>}

\* the state when the dashboard is first shown: construir_salida has parsed
\* and normalized the row and the editor has taken its snapshots
InitEditor ==
    /\ pc = "editor"
    /\ cfg = CfgDefault
    /\ modo_seguro \in BOOLEAN
    /\ \E r \in RegistrosEditor : registro = r[1] /\ no_laborado_extra = r[2]
    /\ corr_evs = <<>>
    /\ times = parse_registro(registro)
    /\ times_norm = _normalize_times(times, modo_seguro)[1]
    /\ reord = _normalize_times(times, modo_seguro)[2]
    /\ eventos = SinEventos
    /\ res = <<>>
    /\ extra_registros = 0
    /\ cena_ignorada = FALSE
    /\ times_edit = <<>>
    /\ nota_final = ""
    /\ plan_devuelto = NoPlan
    /\ no_labor_edit = <<>>
    /\ bulk_pending = NoPlan
    /\ ed_times = parse_registro(registro)
    /\ times_snapshot = ed_times
    /\ no_labor_list = no_laborado_extra
    /\ no_labor_snapshot = no_labor_list
    /\ dirty = FALSE
    /\ bulk_plan = NoPlan
    /\ audit_log = <<>>
    /\ before = <<>>

\* what no step of the session changes
sesion_fija ==
    <<eventos, cfg, no_laborado_extra, res, fila_vars,
      nota_final, plan_devuelto, no_labor_edit, bulk_pending,
      times_snapshot, no_labor_snapshot>>

\* the pipeline after the editor returns ret: the bulk plan is kept, the
\* punches and the no-labor intervals are persisted only after a save, and
\* the row is computed
ContinuarFila(ret) ==
    LET guardo == ret[1] # SinGuardar
        ts     == IF guardo THEN ret[1] ELSE times
        nl     == IF guardo THEN ret[4] ELSE no_laborado_extra
    IN  /\ times_edit' = ret[1]
        /\ nota_final' = ret[2]
        /\ plan_devuelto' = ret[3]
        /\ no_labor_edit' = ret[4]
        /\ bulk_pending' = IF ret[3] # NoPlan THEN ret[3] ELSE bulk_pending
        /\ no_laborado_extra' = nl
        /\ AsignarFila(ts, ProcesarFila(ts, modo_seguro, corr_evs, cfg, nl))

\* option 0: leave without saving
Op0_Salir ==
    /\ pc = "editor"
    /\ ContinuarFila(Salir(no_labor_snapshot, no_labor_list))
    /\ pc' = "descartada"
    /\ UNCHANGED <<cfg, registro, modo_seguro, corr_evs, ed_times, times_snapshot,
                   no_labor_list, no_labor_snapshot, dirty, bulk_plan, audit_log, before>>

\* option 1: edit a mapped event
Op1_EditarEvento ==
    /\ pc = "editor"
    /\ Len(audit_log) < MaxEdiciones
    /\ \E eidx \in 0..5, tnew \in HorasNuevas, motivo \in BOOLEAN :
         IF tnew = None \/ ~motivo THEN UNCHANGED vars
         ELSE LET tn       == _normalize_times(ed_times, modo_seguro)[1]
                  evs      == _map_eventos(tn)
                  k        == event_order[eidx + 1]
                  before_t == evs[k]
              IN  /\ ed_times' = ReconstruirChecadas(evs, tn, eidx, tnew)
                  /\ dirty' = TRUE
                  /\ audit_log' = Append(audit_log,
                        AuditEntry(IF before_t = None THEN "SET_EVENT" ELSE "EDIT_EVENT",
                                   <<"eventos", k>>,
                                   IF before_t # None THEN _fmt_hhmm(before_t) ELSE None,
                                   _fmt_hhmm(tnew)))
                  /\ UNCHANGED <<sesion_fija, pc, no_labor_list, bulk_plan, before>>

\* option 2: insert a punch
Op2_Insertar ==
    /\ pc = "editor"
    /\ Len(audit_log) < MaxEdiciones
    /\ \E tnew \in HorasNuevas, pos_s \in PosicionesEditor :
         LET pos == IF pos_s = 0 THEN Len(ed_times) ELSE pos_s - 1
         IN  IF tnew = None \/ pos > Len(ed_times) THEN UNCHANGED vars
             ELSE /\ ed_times' = InsertAt(ed_times, pos, tnew)
                  /\ dirty' = TRUE
                  /\ audit_log' = Append(audit_log,
                        AuditEntry("INSERT", <<"times", pos>>, None, _fmt_hhmm(tnew)))
                  /\ UNCHANGED <<sesion_fija, pc, no_labor_list, bulk_plan, before>>

\* option 3: delete a punch
Op3_Borrar ==
    /\ pc = "editor"
    /\ Len(audit_log) < MaxEdiciones
    /\ \E idx_s \in IndicesEditor :
         LET idx == idx_s - 1
         IN  IF ed_times = <<>> \/ idx >= Len(ed_times) THEN UNCHANGED vars
             ELSE /\ ed_times' = DeleteAt(ed_times, idx)
                  /\ dirty' = TRUE
                  /\ audit_log' = Append(audit_log,
                        AuditEntry("DELETE", <<"times", idx>>, _fmt_hhmm(ed_times[idx + 1]), None))
                  /\ UNCHANGED <<sesion_fija, pc, no_labor_list, bulk_plan, before>>

\* option 9: edit a raw punch
Op9_EditarCruda ==
    /\ pc = "editor"
    /\ Len(audit_log) < MaxEdiciones
    /\ \E idx_s \in IndicesEditor, tnew \in HorasNuevas, motivo \in BOOLEAN :
         LET idx == idx_s - 1
         IN  IF ed_times = <<>> \/ idx >= Len(ed_times) \/ tnew = None \/ ~motivo
             THEN UNCHANGED vars
             ELSE /\ ed_times' = SetAt(ed_times, idx, tnew)
                  /\ dirty' = TRUE
                  /\ audit_log' = Append(audit_log,
                        AuditEntry("EDIT", <<"times", idx>>, _fmt_hhmm(ed_times[idx + 1]),
                                   _fmt_hhmm(tnew)))
                  /\ UNCHANGED <<sesion_fija, pc, no_labor_list, bulk_plan, before>>

\* option 5: revert to the snapshots
Op5_Revertir ==
    /\ pc = "editor"
    /\ Len(audit_log) < MaxEdiciones
    /\ LET r == Revertir(times_snapshot, no_labor_snapshot, bulk_plan)
       IN  /\ audit_log' = Append(audit_log, AuditEntry("REVERT", "state", "dirty", "snapshot"))
           /\ ed_times' = r.times
           /\ no_labor_list' = r.no_labor_list
           /\ dirty' = r.dirty
           /\ bulk_plan' = r.bulk_plan
    /\ UNCHANGED <<sesion_fija, pc, before>>

\* option 8: open the no-labor submenu
Op8_AbrirNoLabor ==
    /\ pc = "editor"
    /\ before' = _fmt_nolabor(no_labor_list)
    /\ pc' = "nolabor"
    /\ UNCHANGED <<sesion_fija, ed_times, no_labor_list, dirty, bulk_plan, audit_log>>

\* submenu 1: add an interval
NoLab_Agregar ==
    /\ pc = "nolabor"
    /\ Len(audit_log) < MaxEdiciones
    /\ \E iv \in IntervalosNuevos, motivo \in BOOLEAN :
         IF iv[1] = None \/ iv[2] = None \/ iv[1] = iv[2] \/ ~motivo THEN UNCHANGED vars
         ELSE /\ no_labor_list' = Append(no_labor_list, iv)
              /\ audit_log' = Append(audit_log,
                    AuditEntry("NOLAB_INSERT", <<"no_labor", Len(no_labor_list)>>,
                               <<>>, _fmt_nolabor(<<iv>>)))
              /\ UNCHANGED <<sesion_fija, pc, ed_times, dirty, bulk_plan, before>>

\* submenu 2: edit an interval
NoLab_Editar ==
    /\ pc = "nolabor"
    /\ Len(audit_log) < MaxEdiciones
    /\ \E idx_s \in IndicesEditor, iv \in IntervalosNuevos, motivo \in BOOLEAN :
         LET idx == idx_s - 1
         IN  IF \/ no_labor_list = <<>> \/ idx >= Len(no_labor_list)
                \/ iv[1] = None \/ iv[2] = None \/ iv[1] = iv[2] \/ ~motivo
             THEN UNCHANGED vars
             ELSE /\ no_labor_list' = SetAt(no_labor_list, idx, iv)
                  /\ audit_log' = Append(audit_log,
                        AuditEntry("NOLAB_EDIT", <<"no_labor", idx>>,
                                   _fmt_nolabor(<<no_labor_list[idx + 1]>>),
                                   _fmt_nolabor(<<iv>>)))
                  /\ UNCHANGED <<sesion_fija, pc, ed_times, dirty, bulk_plan, before>>

\* submenu 3: delete an interval
NoLab_Borrar ==
    /\ pc = "nolabor"
    /\ Len(audit_log) < MaxEdiciones
    /\ \E idx_s \in IndicesEditor :
         LET idx == idx_s - 1
         IN  IF no_labor_list = <<>> \/ idx >= Len(no_labor_list) THEN UNCHANGED vars
             ELSE /\ no_labor_list' = DeleteAt(no_labor_list, idx)
                  /\ audit_log' = Append(audit_log,
                        AuditEntry("NOLAB_DELETE", <<"no_labor", idx>>,
                                   _fmt_nolabor(<<no_labor_list[idx + 1]>>), <<>>))
                  /\ UNCHANGED <<sesion_fija, pc, ed_times, dirty, bulk_plan, before>>

\* submenu 4: delete every interval
NoLab_BorrarTodos ==
    /\ pc = "nolabor"
    /\ Len(audit_log) < MaxEdiciones
    /\ no_labor_list # <<>>
    /\ no_labor_list' = <<>>
    /\ audit_log' = Append(audit_log,
          AuditEntry("NOLAB_CLEAR", "no_labor", _fmt_nolabor(no_labor_list), <<>>))
    /\ UNCHANGED <<sesion_fija, pc, ed_times, dirty, bulk_plan, before>>

\* submenu 0: back to the dashboard; the change of the formatted list sets
\* dirty (before is not read again: it is left empty)
NoLab_Volver ==
    /\ pc = "nolabor"
    /\ dirty' = (dirty \/ _fmt_nolabor(no_labor_list) # before)
    /\ before' = <<>>
    /\ pc' = "editor"
    /\ UNCHANGED <<sesion_fija, ed_times, no_labor_list, bulk_plan, audit_log>>

\* option 7: plan the replication of the punches to other dates
Op7_Bulk ==
    /\ pc = "editor"
    /\ \E expr \in Solicitudes :
         LET fechas == SinFechaActual(_parse_date_list(expr))
         IN  IF ~dirty \/ expr = <<>> \/ fechas = <<>> THEN UNCHANGED vars
             ELSE /\ bulk_plan' = PlanBulk(fechas, ed_times, modo_seguro)
                  /\ UNCHANGED <<sesion_fija, pc, ed_times, no_labor_list, dirty,
                                 audit_log, before>>

\* option 6: save
Op6_Guardar ==
    /\ pc = "editor"
    /\ \E ok \in BOOLEAN, nota \in NotasFinales :
         LET tn   == _normalize_times(ed_times, modo_seguro)[1]
             warn == HayAdvertencias(ed_times, tn)
         IN  IF warn /\ modo_seguro /\ ~ok THEN UNCHANGED vars
             ELSE /\ ContinuarFila(Guardar(ed_times, dirty, nota, bulk_plan, no_labor_list))
                  /\ audit_log' = IF dirty
                                  THEN Append(audit_log,
                                          AuditEntry("SAVE", "state", "dirty", "saved"))
                                  ELSE audit_log
                  /\ pc' = "guardada"
                  /\ UNCHANGED <<cfg, registro, modo_seguro, corr_evs, ed_times,
                                 times_snapshot, no_labor_list, no_labor_snapshot,
                                 dirty, bulk_plan, before>>

NextEditor ==
    \/ Op0_Salir
    \/ Op1_EditarEvento
    \/ Op2_Insertar
    \/ Op3_Borrar
    \/ Op9_EditarCruda
    \/ Op5_Revertir
    \/ Op8_AbrirNoLabor
    \/ NoLab_Agregar
    \/ NoLab_Editar
    \/ NoLab_Borrar
    \/ NoLab_BorrarTodos
    \/ NoLab_Volver
    \/ Op7_Bulk
    \/ Op6_Guardar

SpecEditor == InitEditor /\ [][NextEditor]_vars

SpecFila == InitFila /\ [][NextFila]_vars

(***************************************************************************)
(* Properties of calcular_trabajado                                        *)
(***************************************************************************)
Calculado == pc = "calculado"

Ent == eventos["Entrada"]

Sal == eventos["Salida"]

\* total span between Entry and Exit
TotalSpan == minutos_entre(Ent, Sal)

SumaDescuentos == res.comida_ded + res.cena_ded + res.extra_ded

\* C1: the three deductions together never exceed the span between Entry
\* and Exit, for every event map, configuration and exception list.
C1_NoOverDeduction ==
    Calculado => SumaDescuentos <= TotalSpan

\* C2: every component of the result is non-negative.
C2_NonNegative ==
    Calculado =>
        /\ res.trabajado >= 0
        /\ res.extra >= 0
        /\ res.comida_ded >= 0
        /\ res.cena_ded >= 0
        /\ res.extra_ded >= 0
        /\ res.ignored_outside_shift >= 0
        /\ res.nolab_solape_interno >= 0
        /\ res.nolab_overlap_cd >= 0

\* a computed day whose deductions exceed the span: the clamp of worked acts
C2_Witness ==
    /\ Calculado
    /\ SumaDescuentos > TotalSpan
    /\ res.extra_ded > 0
    /\ res.trabajado = 0

\* C3: overtime never exceeds worked, for every threshold, rounding step
\* and rounding mode.
C3_OvertimeLeWorked ==
    Calculado => res.extra <= res.trabajado

\* C7: when Entry or Exit is absent the result is all zero, whatever the
\* other slots, the configuration and the exceptions are.
C7_MissingBracketZero ==
    (Calculado /\ (Ent = None \/ Sal = None)) =>
        res = Resultado(0, 0, 0, 0, 0, 0, 0, 0)

\* a day with Entry, a complete meal and an exception but no Exit was computed
C7_Witness ==
    /\ Calculado
    /\ Ent # None
    /\ Sal = None
    /\ eventos["Salida a comer"] # None
    /\ eventos["Regreso de comer"] # None
    /\ eventos["Salida a comer"] # eventos["Regreso de comer"]
    /\ no_laborado_extra # <<>>
    /\ res.trabajado = 0

\* C8: with Entry and Exit present, the meal deduction is 0 without MealOut;
\* otherwise, with actual the minutes from MealOut to MealIn (to Exit when
\* MealIn is absent), it is min(actual, cap) when actual <= ceiling and the
\* full actual when actual > ceiling.
C8_MealPolicy ==
    (Calculado /\ Ent # None /\ Sal # None) =>
        LET sal_com == eventos["Salida a comer"]
            reg_com == eventos["Regreso de comer"]
            actual  == minutos_entre(sal_com, IF reg_com # None THEN reg_com ELSE Sal)
            cap     == cfg.tope_descuento_comida_min
            ceiling == cfg.umbral_comida_media_hora_min
        IN  res.comida_ded =
                IF sal_com = None THEN 0
                ELSE IF actual <= ceiling THEN (IF actual <= cap THEN actual ELSE cap)
                ELSE actual

\* a meal of exactly the default ceiling (60) deducts only the default cap (30)
C8_Witness ==
    /\ Calculado
    /\ Ent # None /\ Sal # None
    /\ cfg = CfgDefault
    /\ res.trabajado = TotalSpan - 30
    /\ eventos["Salida a comer"] # None
    /\ eventos["Regreso de comer"] # None
    /\ minutos_entre(eventos["Salida a comer"], eventos["Regreso de comer"]) = 60
    /\ res.comida_ded = 30

\* C9: with Entry and Exit present, the dinner deduction is 0 without
\* DinnerOut and otherwise the full minutes from DinnerOut to DinnerIn (to
\* Exit when DinnerIn is absent), with no threshold and no cap.
C9_DinnerPolicy ==
    (Calculado /\ Ent # None /\ Sal # None) =>
        LET sal_cen == eventos["Salida a cenar"]
            reg_cen == eventos["Regreso de cenar"]
        IN  res.cena_ded =
                IF sal_cen = None THEN 0
                ELSE minutos_entre(sal_cen, IF reg_cen # None THEN reg_cen ELSE Sal)

\* a dinner without return, longer than the meal cap and within the meal
\* ceiling, is deducted in full up to Exit
C9_Witness ==
    /\ Calculado
    /\ Ent # None /\ Sal # None
    /\ eventos["Salida a cenar"] # None
    /\ eventos["Regreso de cenar"] = None
    /\ res.cena_ded = minutos_entre(eventos["Salida a cenar"], Sal)
    /\ res.cena_ded > cfg.tope_descuento_comida_min
    /\ res.cena_ded <= cfg.umbral_comida_media_hora_min

RedondeoActivo ==
    cfg.redondeo_extra_step_min > 1 /\ cfg.redondeo_extra_modo # "none"

\* C10: worked = max(0, total - the three deductions) and, with rounding
\* disabled, overtime = max(0, worked - threshold).
C10_Aggregation ==
    (Calculado /\ Ent # None /\ Sal # None) =>
        /\ res.trabajado =
              (IF TotalSpan - SumaDescuentos > 0 THEN TotalSpan - SumaDescuentos ELSE 0)
        /\ ~RedondeoActivo =>
              res.extra =
                 (IF res.trabajado > cfg.umbral_extra_min
                  THEN res.trabajado - cfg.umbral_extra_min ELSE 0)

\* worked exactly equal to a positive threshold, after a deduction: overtime 0
C10_Witness ==
    /\ Calculado
    /\ ~RedondeoActivo
    /\ cfg.redondeo_extra_step_min > 1
    /\ SumaDescuentos > 0
    /\ res.trabajado = cfg.umbral_extra_min
    /\ res.trabajado > 0
    /\ res.extra = 0

(***************************************************************************)
(* No-labor exceptions: measures stated independently of the engine        *)
(***************************************************************************)
\* effective end of an exception: its end, or Exit when the end is absent
FinEfectivo(x) == IF x[2] # None THEN x[2] ELSE Sal

\* duration of a supplied exception (0 when its start is absent)
Duracion(x) == minutos_entre(x[1], FinEfectivo(x))

RECURSIVE SumaDuraciones(_, _)
SumaDuraciones(nl, k) ==
    IF k = 0 THEN 0 ELSE SumaDuraciones(nl, k - 1) + Duracion(nl[k])

\* an interval <<ini, fin>> of clock times as [a, b) on the shift timeline
EnLinea(iv) ==
    LET a == _to_shift_dt(iv[1], Ent, Sal < Ent)
        b == _to_shift_dt(iv[2], Ent, Sal < Ent)
    IN  <<a, IF b < a THEN b + DayMin ELSE b>>

\* length of the intersection of [p[1], p[2]) and [q[1], q[2])
Inter(p, q) ==
    LET lo == IF p[1] >= q[1] THEN p[1] ELSE q[1]
        hi == IF p[2] <= q[2] THEN p[2] ELSE q[2]
    IN  <<lo, IF hi > lo THEN hi ELSE lo>>

Largo(p) == p[2] - p[1]

\* minutes of the interval p covered by the union of the windows ws (at most two)
Cubierto(p, ws) ==
    IF Len(ws) = 0 THEN 0
    ELSE IF Len(ws) = 1 THEN Largo(Inter(p, EnLinea(ws[1])))
    ELSE Largo(Inter(p, EnLinea(ws[1]))) + Largo(Inter(p, EnLinea(ws[2])))
         - Largo(Inter(Inter(p, EnLinea(ws[1])), EnLinea(ws[2])))

\* the merged no-labor intervals of the computed record
Merged ==
    LET clip      == ClipIntervals(no_laborado_extra, Len(no_laborado_extra), Ent, Sal)
        intervals == SortIntervals(clip[1], Len(clip[1]), Ent)
    IN  MergeIntervals(intervals, Len(intervals), Ent, Sal < Ent)[1]

RECURSIVE SumaCubierto(_, _, _)
SumaCubierto(merged, k, ws) ==
    IF k = 0 THEN 0
    ELSE SumaCubierto(merged, k - 1, ws) + Cubierto(EnLinea(merged[k]), ws)

RECURSIVE SumaLargo(_, _)
SumaLargo(merged, k) ==
    IF k = 0 THEN 0 ELSE SumaLargo(merged, k - 1) + Largo(EnLinea(merged[k]))

\* C4: of every merged no-labor interval, exactly the minutes outside the
\* deducted meal and dinner windows are added to the no-labor deduction and
\* exactly the minutes inside them to the meal/dinner-overlap counter.
C4_NoDoubleCharge ==
    (Calculado /\ Ent # None /\ Sal # None) =>
        LET ws      == VentanasDescuento(eventos, cfg)
            dentro  == SumaCubierto(Merged, Len(Merged), ws)
            total_m == SumaLargo(Merged, Len(Merged))
        IN  /\ res.nolab_overlap_cd = dentro
            /\ res.extra_ded = total_m - dentro

\* the deducted meal window and the dinner window share no minute
VentanasDisjuntas ==
    LET ws == VentanasDescuento(eventos, cfg)
    IN  Len(ws) = 2 => Largo(Inter(EnLinea(ws[1]), EnLinea(ws[2]))) = 0

\* the statement of C4 restricted to records whose two windows are disjoint
NoDoubleChargeDisjuntas ==
    (Calculado /\ Ent # None /\ Sal # None /\ VentanasDisjuntas) =>
        LET ws      == VentanasDescuento(eventos, cfg)
            dentro  == SumaCubierto(Merged, Len(Merged), ws)
            total_m == SumaLargo(Merged, Len(Merged))
        IN  /\ res.nolab_overlap_cd = dentro
            /\ res.extra_ded = total_m - dentro

\* an exception inside the capped meal window that crosses midnight:
\* nothing deducted as no-labor, its whole length in the overlap counter
ExcepcionEnVentanaComida ==
    /\ Calculado /\ Ent # None /\ Sal # None /\ Sal < Ent
    /\ eventos["Salida a comer"] # None /\ eventos["Salida a cenar"] = None
    /\ res.comida_ded = cfg.tope_descuento_comida_min
    /\ add_minutes(eventos["Salida a comer"], res.comida_ded) < eventos["Salida a comer"]
    /\ Len(no_laborado_extra) = 1
    /\ Duracion(no_laborado_extra[1]) > 0
    /\ res.extra_ded = 0
    /\ res.nolab_overlap_cd = Duracion(no_laborado_extra[1])
    /\ res.ignored_outside_shift = 0

\* C6: the meal/dinner-overlap counter never exceeds the sum of the
\* durations of the supplied exceptions (an absent end counted as Exit).
C6_OverlapBound ==
    (Calculado /\ Ent # None /\ Sal # None) =>
        res.nolab_overlap_cd <=
            SumaDuraciones(no_laborado_extra, Len(no_laborado_extra))

\* offset from Entry and minutes of an exception on the shift
Desde(x) == minutos_entre(Ent, x[1])

Minutos(x) == Desde(x) .. (Desde(x) + Duracion(x) - 1)

\* the exception has a start, is not empty and lies inside [Entry, Exit]
DentroDeJornada(x) ==
    /\ x[1] # None
    /\ Duracion(x) > 0
    /\ Desde(x) + Duracion(x) <= TotalSpan

UnionMinutos == UNION {Minutos(no_laborado_extra[i]) : i \in DOMAIN no_laborado_extra}

\* C5: exceptions inside the shift of a record without meal or dinner are
\* merged: the no-labor deduction is the length of their union and the
\* internal-overlap counter the minutes counted more than once (for two
\* exceptions, the minutes they share); nothing is ignored.
C5_MergeUnion ==
    (/\ Calculado /\ Ent # None /\ Sal # None
     /\ eventos["Salida a comer"] = None /\ eventos["Salida a cenar"] = None
     /\ Len(no_laborado_extra) >= 2
     /\ \A i \in DOMAIN no_laborado_extra : DentroDeJornada(no_laborado_extra[i]))
    =>
        /\ res.extra_ded = Cardinality(UnionMinutos)
        /\ res.nolab_solape_interno =
              SumaDuraciones(no_laborado_extra, Len(no_laborado_extra))
              - Cardinality(UnionMinutos)
        /\ Len(no_laborado_extra) = 2 =>
              res.nolab_solape_interno =
                 Cardinality(Minutos(no_laborado_extra[1]) \cap Minutos(no_laborado_extra[2]))
        /\ res.ignored_outside_shift = 0
        /\ res.nolab_overlap_cd = 0

\* two overlapping exceptions in an overnight shift, the second straddling
\* midnight and ending after the first: deduction = union < sum
C5_Witness ==
    /\ Calculado /\ Ent # None /\ Sal # None /\ Sal < Ent
    /\ eventos["Salida a comer"] = None /\ eventos["Salida a cenar"] = None
    /\ Len(no_laborado_extra) = 2
    /\ \A i \in DOMAIN no_laborado_extra : DentroDeJornada(no_laborado_extra[i])
    /\ no_laborado_extra[2][2] # None
    /\ no_laborado_extra[2][2] < no_laborado_extra[2][1]
    /\ res.nolab_solape_interno > 0
    /\ res.extra_ded > Duracion(no_laborado_extra[1])
    /\ res.extra_ded > Duracion(no_laborado_extra[2])
    /\ res.extra_ded < Duracion(no_laborado_extra[1]) + Duracion(no_laborado_extra[2])

(***************************************************************************)
(* Properties of the row construction                                      *)
(***************************************************************************)
FilaHecha == pc \in {"construida", "recalculada"}

\* the times of day the row holds, and the absent time
HorasDeFila ==
    SeqToSet(times) \cup SeqToSet(times_norm) \cup {eventos[k] : k \in CORR_EVENTOS} \cup {None}

SinDescansos ==
    /\ eventos["Salida a comer"] = None
    /\ eventos["Salida a cenar"] = None
    /\ no_laborado_extra = <<>>

\* C11: minutes_between(start, end) adds 24h to the end exactly when the
\* end's clock time is less than the start's: it is (end - start) mod 1440,
\* lies in 0..1439 and is 0 when either time is absent; a row without
\* breaks is worked over that span from Entry to Exit.
C11_MinutosEntre ==
    /\ \A a \in HorasDeFila : \A b \in HorasDeFila :
          /\ (a = None \/ b = None) => minutos_entre(a, b) = 0
          /\ (a # None /\ b # None) =>
                /\ minutos_entre(a, b) = (b - a) % 1440
                /\ minutos_entre(a, b) = (IF b < a THEN b + 1440 ELSE b) - a
                /\ minutos_entre(a, b) \in 0..1439
    /\ (FilaHecha /\ Ent # None /\ Sal # None /\ SinDescansos) =>
          res.trabajado = (Sal - Ent) % 1440

\* the string "22:00 02:00" gives 240 worked minutes
C11_Witness ==
    /\ pc = "construida"
    /\ ~modo_seguro
    /\ registro = <<(<<22, 0, None>>), (<<2, 0, None>>)>>
    /\ Ent = 1320 /\ Sal = 120
    /\ res.trabajado = 240

\* the string "23:50:12 00:10 00:40:59 02:00" gives 100 worked minutes
CruceConDescansos ==
    /\ pc = "construida"
    /\ registro = <<(<<23, 50, 12>>), (<<0, 10, None>>), (<<0, 40, 59>>), (<<2, 0, None>>)>>
    /\ res.trabajado = 100
    /\ res.comida_ded = 30

(***************************************************************************)
(* Clipping of the exceptions to the shift                                 *)
(***************************************************************************)
\* a clock time on the shift timeline: in an overnight shift the times
\* earlier than Entry belong to the following day
EnJornada(t) == IF Sal < Ent /\ t < Ent THEN t + 1440 ELSE t

\* the shift window [Entry, Exit) on the timeline
IntervaloJornada == <<Ent, Ent + TotalSpan>>

\* an exception with a start as [start, end) on the timeline
IntervaloExcepcion(x) ==
    <<EnJornada(x[1]), EnJornada(x[1]) + Duracion(x)>>

\* the part of the exception inside the window (empty when its start is absent)
ParteDentro(x) ==
    IF x[1] = None THEN <<0, 0>>
    ELSE Inter(IntervaloExcepcion(x), IntervaloJornada)

\* the minutes of the exception that fall outside the window
Fuera(x) == Duracion(x) - Largo(ParteDentro(x))

MinutosDentro(x) == ParteDentro(x)[1] .. (ParteDentro(x)[2] - 1)

RECURSIVE SumaFuera(_, _)
SumaFuera(nl, k) ==
    IF k = 0 THEN 0 ELSE SumaFuera(nl, k - 1) + Fuera(nl[k])

\* C12: every exception is clipped to [Entry, Exit] on the shift timeline:
\* the ignored-outside-shift counter is the sum of the minutes of each
\* exception that fall outside the window (all of them for an exception
\* entirely outside) and, in a record without meal or dinner, the minutes
\* deducted are exactly those of the exceptions inside the window.
C12_ClipToShift ==
    (Calculado /\ Ent # None /\ Sal # None) =>
        /\ res.ignored_outside_shift =
              SumaFuera(no_laborado_extra, Len(no_laborado_extra))
        /\ (eventos["Salida a comer"] = None /\ eventos["Salida a cenar"] = None) =>
              res.extra_ded =
                 Cardinality(UNION {MinutosDentro(no_laborado_extra[i]) :
                                       i \in DOMAIN no_laborado_extra})

\* an overnight shift with one exception entirely outside the window and
\* one trimmed to it
C12_Witness ==
    /\ Calculado /\ Ent # None /\ Sal # None /\ Sal < Ent
    /\ eventos["Salida a comer"] = None /\ eventos["Salida a cenar"] = None
    /\ Len(no_laborado_extra) = 2
    /\ Duracion(no_laborado_extra[1]) > 0
    /\ Fuera(no_laborado_extra[1]) = Duracion(no_laborado_extra[1])
    /\ Fuera(no_laborado_extra[2]) > 0
    /\ Fuera(no_laborado_extra[2]) < Duracion(no_laborado_extra[2])
    /\ res.extra_ded = Duracion(no_laborado_extra[2]) - Fuera(no_laborado_extra[2])
    /\ res.ignored_outside_shift =
          Duracion(no_laborado_extra[1]) + Fuera(no_laborado_extra[2])

(***************************************************************************)
(* Properties of the normalizer                                            *)
(***************************************************************************)
\* the row was normalized (safe mode copies the punches instead)
Normalizada == FilaHecha /\ ~modo_seguro

\* C13: normalizing the normalized list of any punch list returns it
\* unchanged with reordered = false.
C13_Idempotence ==
    Normalizada =>
        normalize_registro_times(times_norm) = <<times_norm, FALSE>>

\* an overnight list of at least 3 punches that the normalizer reordered
C13_Witness ==
    /\ Normalizada
    /\ Len(times) >= 3
    /\ wrap_likely(times)
    /\ reord
    /\ times_norm # times
    /\ times_norm[1] = times[1]
    /\ normalize_registro_times(times_norm) = <<times_norm, FALSE>>

\* how many times the punch v occurs in the list
Veces(l, v) == Cardinality({i \in DOMAIN l : l[i] = v})

\* the overnight heuristic on the input list, as the contract words it
HeuristicaNocturna(l) ==
    LET menor == \E i \in 2..Len(l) : l[i] < l[1]
    IN  \/ l[1] >= 18 * 60 /\ menor
        \/ menor /\ \E i \in DOMAIN l : \E j \in DOMAIN l : l[i] - l[j] > 12 * 60

\* adjusted minute of the punch m of the input list l
Clave(l, m) == IF HeuristicaNocturna(l) /\ m < l[1] THEN m + 1440 ELSE m

\* C14: for 2 or more punches the output holds exactly the input punches
\* (each as many times as in the input) in non-decreasing order of adjusted
\* minute, the adjusted minute being the minute of day plus 1440 exactly when
\* the overnight heuristic fires and the minute is below the first punch's.
\* Punches with equal adjusted minutes are equal, so this order is the
\* stable sort by (adjusted minute, original index).
C14_SortedPermutation ==
    (Normalizada /\ Len(times) >= 2) =>
        /\ Len(times_norm) = Len(times)
        /\ \A v \in SeqToSet(times) \cup SeqToSet(times_norm) :
              Veces(times_norm, v) = Veces(times, v)
        /\ \A i \in DOMAIN times_norm : \A j \in DOMAIN times_norm :
              i < j => Clave(times, times_norm[i]) <= Clave(times, times_norm[j])
        /\ \A v \in SeqToSet(times) : \A w \in SeqToSet(times) :
              Clave(times, v) = Clave(times, w) => v = w

\* a list entered before 18:00 whose range exceeds 12 hours: the heuristic
\* fires on the range alone and the punches are reordered around midnight
C14_Witness ==
    /\ Normalizada
    /\ Len(times) >= 3
    /\ times[1] < 18 * 60
    /\ HeuristicaNocturna(times)
    /\ reord
    /\ \E i \in DOMAIN times_norm : \E j \in DOMAIN times_norm :
          i < j /\ times_norm[i] > times_norm[j]

\* a later punch exactly 12 hours below the first: the heuristic does not fire
DoceHorasExactas ==
    /\ Normalizada
    /\ times = <<780, 60>>
    /\ times_norm = <<60, 780>>
    /\ reord

\* minutes from the first punch of the list to the punch m, within a day
DesdePrimera(l, m) == (m - l[1]) % 1440

\* the list starts at 18:00 or later and is in chronological shift order
NocturnaEnOrden(l) ==
    /\ Len(l) >= 2
    /\ l[1] >= 18 * 60
    /\ \A i \in DOMAIN l : \A j \in DOMAIN l :
          i < j => DesdePrimera(l, l[i]) <= DesdePrimera(l, l[j])

\* C15: the reordered flag is true exactly when the output differs from the
\* input; fewer than 2 punches come back unchanged with the flag false, and
\* so does an overnight list already in chronological shift order.
C15_ReorderedFlag ==
    Normalizada =>
        /\ reord <=> (times_norm # times)
        /\ Len(times) < 2 => (times_norm = times /\ ~reord)
        /\ NocturnaEnOrden(times) => (times_norm = times /\ ~reord)

\* first punch at 18:00 or later, two later punches after midnight in
\* increasing order: unchanged, flag false
C15_Witness ==
    /\ Normalizada
    /\ Len(times) = 3
    /\ times[1] >= 18 * 60
    /\ times[2] < times[3] /\ times[3] < times[1]
    /\ times_norm = times
    /\ ~reord

(***************************************************************************)
(* Properties of the event mapping                                         *)
(***************************************************************************)
\* the slot of each event by position in the normalized list
Posicional(k) ==
    LET n == Len(times_norm)
        en(i, desde) == IF n >= desde THEN times_norm[i] ELSE None
    IN  CASE k = "Entrada"          -> en(1, 1)
          [] k = "Salida"           -> en(n, 2)
          [] k = "Salida a comer"   -> en(2, 3)
          [] k = "Regreso de comer" -> en(3, 4)
          [] k = "Salida a cenar"   -> en(4, 5)
          [] k = "Regreso de cenar" -> en(5, 6)

SlotsCena == {"Salida a cenar", "Regreso de cenar"}

\* C16: without corrections the slots are positional: Entry the first punch,
\* Exit the last one (for 2 or more), the interior punches in order MealOut,
\* MealIn, DinnerOut, DinnerIn, at most the first 4 of them, the other slots
\* absent, and the overflow count max(0, n - 6).  (The dinner slots are
\* compared when the sanity rule on the dinner did not clear them.)
C16_PositionalMapping ==
    (FilaHecha /\ corr_evs = <<>>) =>
        /\ extra_registros =
              (IF Len(times_norm) > 6 THEN Len(times_norm) - 6 ELSE 0)
        /\ \A k \in CORR_EVENTOS \ SlotsCena : eventos[k] = Posicional(k)
        /\ ~cena_ignorada => \A k \in SlotsCena : eventos[k] = Posicional(k)

\* 7 punches: one overflow, the exit is the 7th punch and not the 6th
C16_Witness ==
    /\ FilaHecha /\ corr_evs = <<>> /\ ~cena_ignorada
    /\ Len(times_norm) = 7
    /\ extra_registros = 1
    /\ times_norm[7] # times_norm[6]
    /\ eventos["Salida"] = times_norm[7]
    /\ eventos["Regreso de cenar"] = times_norm[5]
    /\ eventos["Regreso de cenar"] # times_norm[6]

\* a single punch is the entry and nothing else
UnaSolaChecada ==
    /\ FilaHecha /\ corr_evs = <<>>
    /\ Len(times_norm) = 1
    /\ eventos["Entrada"] = times_norm[1]
    /\ \A k \in CORR_EVENTOS \ {"Entrada"} : eventos[k] = None

(***************************************************************************)
(* Malformed exceptions                                                    *)
(***************************************************************************)
ConInicio(x) == x[1] # None

\* the exception list without the entries whose start is absent
SinInicioAusente(nl) == SelectSeq(nl, ConInicio)

\* the exception list with every absent end replaced by Exit
FinSustituido(nl) ==
    [i \in DOMAIN nl |-> <<nl[i][1], IF nl[i][2] = None THEN Sal ELSE nl[i][2]>>]

ResultadoCero == Resultado(0, 0, 0, 0, 0, 0, 0, 0)

\* every component of the result is a number of minutes
EsResultado ==
    \A f \in {"trabajado", "extra", "comida_ded", "cena_ded", "extra_ded",
              "nolab_overlap_cd", "nolab_solape_interno", "ignored_outside_shift"} :
        res[f] \in Nat

\* an exception without start counts for nothing and one without end is
\* evaluated up to Exit; a result is always returned
ExcepcionesMalformadas ==
    /\ EsResultado
    /\ (\E i \in DOMAIN no_laborado_extra :
            no_laborado_extra[i][1] = None \/ no_laborado_extra[i][2] = None) =>
          res = calcular_trabajado(eventos, cfg,
                                   SinInicioAusente(FinSustituido(no_laborado_extra)))

\* C17: an exception whose start is absent is skipped, one whose end is
\* absent is evaluated with end = Exit, a result is returned for any list,
\* and the all-zero result is returned only when Entry or Exit is missing.
C17_MalformedExceptions ==
    Calculado =>
        /\ ExcepcionesMalformadas
        /\ res = ResultadoCero => (Ent = None \/ Sal = None)

\* C17 as amended: the all-zero result is returned only when Entry or Exit
\* is missing or Exit equals Entry (a span of 0 minutes).
C17_Amended ==
    Calculado =>
        /\ ExcepcionesMalformadas
        /\ res = ResultadoCero => (Ent = None \/ Sal = None \/ Ent = Sal)

\* an exception without start before one without end that is deducted up to Exit
C17_Witness ==
    /\ Calculado /\ Ent # None /\ Sal # None /\ Ent # Sal
    /\ Len(no_laborado_extra) = 2
    /\ no_laborado_extra[1][1] = None
    /\ no_laborado_extra[2][1] # None /\ no_laborado_extra[2][2] = None
    /\ eventos["Salida a comer"] = None /\ eventos["Salida a cenar"] = None
    /\ res.extra_ded = minutos_entre(no_laborado_extra[2][1], Sal)
    /\ res.extra_ded > 0
    /\ res.ignored_outside_shift = 0

(***************************************************************************)
(* Rounding of the overtime                                                *)
(***************************************************************************)
\* overtime before rounding
ExtraExacta ==
    IF res.trabajado > cfg.umbral_extra_min
    THEN res.trabajado - cfg.umbral_extra_min ELSE 0

Paso == cfg.redondeo_extra_step_min

Modo == cfg.redondeo_extra_modo

\* C18: overtime is rounded only if the step is > 1 and the mode is not
\* "none", otherwise it is exact; "up" gives the smallest multiple of the
\* step >= overtime, "down" the largest multiple <= overtime, "nearest" the
\* closest multiple with ties rounded up; worked minutes are never rounded.
C18_Rounding ==
    (Calculado /\ Ent # None /\ Sal # None) =>
        /\ ~(Paso > 1 /\ Modo # "none") => res.extra = ExtraExacta
        /\ (Paso > 1 /\ Modo # "none") => res.extra % Paso = 0
        /\ (Paso > 1 /\ Modo = "up") =>
              (res.extra >= ExtraExacta /\ res.extra - Paso < ExtraExacta)
        /\ (Paso > 1 /\ Modo = "down") =>
              (res.extra <= ExtraExacta /\ res.extra + Paso > ExtraExacta)
        /\ (Paso > 1 /\ Modo = "nearest") =>
              (2 * (res.extra - ExtraExacta) <= Paso /\ 2 * (ExtraExacta - res.extra) < Paso)
        /\ res.trabajado =
              (IF TotalSpan - SumaDescuentos > 0 THEN TotalSpan - SumaDescuentos ELSE 0)

\* an overtime exactly half a step above a multiple, rounded up by "nearest",
\* with worked minutes that are not a multiple of the step
C18_Witness ==
    /\ Calculado /\ Ent # None /\ Sal # None
    /\ Paso = 10 /\ Modo = "nearest"
    /\ cfg.umbral_extra_min > 0
    /\ ExtraExacta = 15
    /\ res.extra = 20
    /\ res.trabajado % Paso # 0

(***************************************************************************)
(* Properties of the parser                                                *)
(***************************************************************************)
\* the token is a time of day: hour 0..23 and minute 0..59
TokenValido(tok) == tok[1] \in 0..23 /\ tok[2] \in 0..59

\* the token's time with the seconds dropped
HoraDeToken(tok) == tok[1] * 60 + tok[2]

\* the positions of the raw string where the time v appears
Apariciones(v) ==
    {i \in DOMAIN registro : TokenValido(registro[i]) /\ HoraDeToken(registro[i]) = v}

PrimeraAparicion(v) == CHOOSE i \in Apariciones(v) : \A j \in Apariciones(v) : i <= j

SinRepetidas(l) == \A i \in DOMAIN l : \A j \in DOMAIN l : i # j => l[i] # l[j]

\* C19: the parsed list holds the valid times of the raw string, seconds
\* dropped, each once, in the order of their first appearance; it never has
\* two equal times, and it is this list that is normalized.
C19_ParseDedup ==
    pc = "construida" =>
        /\ SeqToSet(times) =
              {HoraDeToken(registro[i]) :
                  i \in {j \in DOMAIN registro : TokenValido(registro[j])}}
        /\ SinRepetidas(times)
        /\ \A i \in DOMAIN times : \A j \in DOMAIN times :
              i < j => PrimeraAparicion(times[i]) < PrimeraAparicion(times[j])
        /\ SinRepetidas(times_norm)
        /\ SeqToSet(times_norm) = SeqToSet(times)

\* 22:00 twice, the second time with seconds, around an invalid token and
\* an earlier time: two punches are kept, in order of appearance
C19_Witness ==
    /\ pc = "construida"
    /\ modo_seguro
    /\ Len(registro) = 4
    /\ \E i \in DOMAIN registro : ~TokenValido(registro[i])
    /\ registro[1] = <<22, 0, None>>
    /\ registro[4] = <<22, 0, 12>>
    /\ times = <<1320, 120>>

(***************************************************************************)
(* Sanity rule on the dinner                                               *)
(***************************************************************************)
\* the slot of the event k after the corrections of the row
TrasCorrecciones(k) ==
    IF k \in DOMAIN corr_evs THEN corr_evs[k] ELSE Posicional(k)

\* the end of the meal: MealIn, or Exit when only MealOut is present
FinDeComida ==
    IF TrasCorrecciones("Regreso de comer") # None THEN TrasCorrecciones("Regreso de comer")
    ELSE IF TrasCorrecciones("Salida a comer") # None THEN TrasCorrecciones("Salida")
    ELSE None

\* minutes from the corrected Entry to the time t
DesdeEntrada(t) == (t - TrasCorrecciones("Entrada")) % 1440

\* the dinner starts strictly before the end of the meal
CenaAnomala ==
    /\ TrasCorrecciones("Entrada") # None
    /\ TrasCorrecciones("Salida") # None
    /\ TrasCorrecciones("Salida a cenar") # None
    /\ FinDeComida # None
    /\ DesdeEntrada(TrasCorrecciones("Salida a cenar")) < DesdeEntrada(FinDeComida)

\* C20: in both row builders, when after corrections Entry, Exit and
\* DinnerOut are present and DinnerOut's offset from Entry is strictly less
\* than that of the meal's end, both dinner slots are cleared before the
\* computation (dinner deduction 0, row flagged); otherwise the dinner
\* slots, like all the others, are left as they are.
C20_DinnerSanity ==
    FilaHecha =>
        /\ \A k \in CORR_EVENTOS \ SlotsCena : eventos[k] = TrasCorrecciones(k)
        /\ CenaAnomala =>
              /\ \A k \in SlotsCena : eventos[k] = None
              /\ res.cena_ded = 0
              /\ cena_ignorada
        /\ ~CenaAnomala =>
              /\ \A k \in SlotsCena : eventos[k] = TrasCorrecciones(k)
              /\ ~cena_ignorada

\* the row 08:25 13:11 13:41 15:47 recalculated with DinnerOut corrected to
\* 10:38: the dinner is cleared and only the capped meal is deducted
C20_Witness ==
    /\ pc = "recalculada"
    /\ times = <<505, 791, 821, 947>>
    /\ DOMAIN corr_evs = {"Salida a cenar"}
    /\ corr_evs["Salida a cenar"] = 638
    /\ no_laborado_extra = <<>>
    /\ cena_ignorada
    /\ eventos["Salida a cenar"] = None
    /\ res.cena_ded = 0
    /\ res.trabajado = 412

\* a dinner that starts exactly when the meal ends is kept
CenaAlFinDeComida ==
    /\ FilaHecha
    /\ eventos["Salida a cenar"] # None
    /\ eventos["Regreso de comer"] = eventos["Salida a cenar"]
    /\ eventos["Regreso de cenar"] # None
    /\ eventos["Regreso de cenar"] # eventos["Salida a cenar"]
    /\ ~cena_ignorada
    /\ res.cena_ded > 0

(***************************************************************************)
(* Which punch becomes Entry                                               *)
(***************************************************************************)
\* C27: when the overnight heuristic fires the first input punch stays first
\* in the output, and when it does not the first output punch is the one
\* with the smallest minute of day; a two-punch record whose second punch is
\* earlier on the clock keeps its order only if the first punch is >= 18:00
\* or the two are more than 12h apart.  Without corrections the first output
\* punch is the Entry.
C27_EntryAfterNormalization ==
    (Normalizada /\ Len(times) >= 2) =>
        /\ HeuristicaNocturna(times) => times_norm[1] = times[1]
        /\ ~HeuristicaNocturna(times) =>
              \A i \in DOMAIN times : times_norm[1] <= times[i]
        /\ (Len(times) = 2 /\ times[2] < times[1]) =>
              (times_norm = times <=>
                  (times[1] >= 18 * 60 \/ times[1] - times[2] > 12 * 60))
        /\ corr_evs = <<>> => eventos["Entrada"] = times_norm[1]

\* entry at exactly 18:00 and a second punch at 13:00: the order is kept
\* and 18:00 is the Entry
C27_Witness ==
    /\ Normalizada
    /\ times = <<1080, 780>>
    /\ times_norm = <<1080, 780>>
    /\ eventos["Entrada"] = 1080
    /\ eventos["Salida"] = 780

\* entry at 17:59 and a second punch at 13:00: the punches are swapped
EntradaDesplazada ==
    /\ Normalizada
    /\ times = <<1079, 780>>
    /\ times_norm = <<780, 1079>>
    /\ eventos["Entrada"] = 780

(***************************************************************************)
(* Order of the exceptions                                                 *)
(***************************************************************************)
Permutaciones(n) ==
    {p \in [1..n -> 1..n] : \A i \in 1..n : \A j \in 1..n : i # j => p[i] # p[j]}

Permutada(nl, p) == [i \in DOMAIN nl |-> nl[p[i]]]

\* C26: for a fixed EventMap and configuration every permutation of the
\* exception list yields the same eight-component result.
C26_OrderIndependence ==
    Calculado =>
        \A p \in Permutaciones(Len(no_laborado_extra)) :
            calcular_trabajado(eventos, cfg, Permutada(no_laborado_extra, p)) = res

\* three exceptions supplied latest first, two with the same start and one
\* across midnight, merged with internal overlap in an overnight shift
C26_Witness ==
    /\ Calculado /\ Ent # None /\ Sal # None /\ Sal < Ent
    /\ Len(no_laborado_extra) = 3
    /\ no_laborado_extra[1] = <<0, 10>>
    /\ no_laborado_extra[2][1] = no_laborado_extra[3][1]
    /\ no_laborado_extra[2] # no_laborado_extra[3]
    /\ no_laborado_extra[3][2] # None
    /\ no_laborado_extra[3][2] < no_laborado_extra[3][1]
    /\ res.nolab_solape_interno > 0
    /\ res.extra_ded > 0

(***************************************************************************)
(* Rows built from normalized punches, with exceptions                     *)
(***************************************************************************)
\* C24: for every punch list, the EventMap of the normalized list with any
\* exception list and the default configuration gives 0 <= worked <= span,
\* 0 <= overtime <= worked, each deduction within 0..span and their sum
\* <= span.
C24_NormalizedBounds ==
    (Normalizada /\ cfg = CfgDefault) =>
        /\ 0 <= res.trabajado /\ res.trabajado <= TotalSpan
        /\ 0 <= res.extra /\ res.extra <= res.trabajado
        /\ 0 <= res.comida_ded /\ res.comida_ded <= TotalSpan
        /\ 0 <= res.cena_ded /\ res.cena_ded <= TotalSpan
        /\ 0 <= res.extra_ded /\ res.extra_ded <= TotalSpan
        /\ SumaDescuentos <= TotalSpan

\* an overnight row with meal and dinner whose exception is partly inside
\* the meal window: the three deductions are all positive and fit the span
C24_Witness ==
    /\ Normalizada /\ cfg = CfgDefault
    /\ Sal < Ent
    /\ res.comida_ded > 0 /\ res.cena_ded > 0 /\ res.extra_ded > 0
    /\ res.nolab_overlap_cd > 0
    /\ SumaDescuentos < TotalSpan
    /\ res.trabajado = TotalSpan - SumaDescuentos

\* C25: when the slots are in chronological shift order (map_eventos on a
\* normalized list), the minutes of the exceptions that have a start, each
\* measured to its end or to Exit, equal ignored-outside-shift +
\* internal-overlap + meal/dinner-overlap + no-labor deduction.
C25_MinuteConservation ==
    (Normalizada /\ Ent # None /\ Sal # None) =>
        SumaDuraciones(no_laborado_extra, Len(no_laborado_extra)) =
            res.ignored_outside_shift + res.nolab_solape_interno
            + res.nolab_overlap_cd + res.extra_ded

\* two exceptions with a start, where each of the four counters is positive
C25_Witness ==
    /\ Normalizada /\ Ent # None /\ Sal # None
    /\ Len(no_laborado_extra) = 2
    /\ no_laborado_extra[1][1] # None /\ no_laborado_extra[2][1] # None
    /\ res.ignored_outside_shift > 0
    /\ res.nolab_solape_interno > 0
    /\ res.nolab_overlap_cd > 0
    /\ res.extra_ded > 0

(***************************************************************************)
(* The preview engine and the export engine                                *)
(***************************************************************************)
\* C23: the preview engine of the editor (legacy.calcular_trabajado) and the
\* engine of the exported result (core.calcular_trabajado) return the same
\* eight components for every event map, configuration and exception list.
C23_PreviewEquivalence ==
    Calculado => legacy_calcular_trabajado(eventos, cfg, no_laborado_extra) = res

\* the two engines agree when no configured meal value is 0 and the shift
\* does not cross midnight with two or more exceptions
PreviewIgualSinCeroNiCruce ==
    (/\ Calculado
     /\ cfg.tope_descuento_comida_min # 0
     /\ cfg.umbral_comida_media_hora_min # 0
     /\ (Ent = None \/ Sal = None \/ Sal >= Ent \/ Len(no_laborado_extra) < 2))
        => legacy_calcular_trabajado(eventos, cfg, no_laborado_extra) = res

\* the engines differ on an overnight shift with the default configuration
PreviewDifiereEnCruce ==
    /\ Calculado
    /\ cfg = CfgDefault
    /\ Sal < Ent
    /\ legacy_calcular_trabajado(eventos, cfg, no_laborado_extra) # res

\* the engines differ on a day shift without exceptions, by a meal value of 0
PreviewDifiereConCero ==
    /\ Calculado
    /\ no_laborado_extra = <<>>
    /\ cfg.tope_descuento_comida_min = 0
    /\ legacy_calcular_trabajado(eventos, cfg, no_laborado_extra).comida_ded # res.comida_ded

(***************************************************************************)
(* The interactive editor                                                  *)
(***************************************************************************)
\* the no-labor list the editor was opened with
AbiertoCon == (CHOOSE r \in RegistrosEditor : r[1] = registro)[2]

UltimaAccion == IF audit_log = <<>> THEN "" ELSE audit_log[Len(audit_log)].accion

AccionesDeChecadas == {"SET_EVENT", "EDIT_EVENT", "INSERT", "DELETE", "EDIT"}

AccionesDeNoLabor == {"NOLAB_INSERT", "NOLAB_EDIT", "NOLAB_DELETE", "NOLAB_CLEAR"}

\* C21: leaving without saving (option 0), after any edits of punches and of
\* no-labor intervals, returns times = None, an empty note, no bulk plan and
\* the no-labor list the editor was opened with; the pipeline keeps the
\* original punches and persists no no-labor change.
C21_ExitWithoutSaving ==
    pc = "descartada" =>
        /\ times_edit = SinGuardar
        /\ nota_final = ""
        /\ plan_devuelto = NoPlan
        /\ no_labor_edit = AbiertoCon
        /\ times = parse_registro(registro)
        /\ no_laborado_extra = AbiertoCon
        /\ bulk_pending = NoPlan

\* the session edited the punches and the intervals and had a bulk plan
\* pending when the user left without saving
C21_Witness ==
    /\ pc = "descartada"
    /\ dirty
    /\ ed_times # times_snapshot
    /\ no_labor_list # no_labor_snapshot
    /\ bulk_plan # NoPlan
    /\ \E i \in 1..Len(audit_log) : audit_log[i].accion \in AccionesDeChecadas
    /\ \E i \in 1..Len(audit_log) : audit_log[i].accion \in AccionesDeNoLabor

\* C22: a bulk plan exists only with a change pending; the plan returned on
\* save carries the current normalized punch list as HH:MM strings and the
\* requested dates without the date being edited, and never an empty list
\* of dates.
C22_BulkPlan ==
    (pc = "guardada" /\ plan_devuelto # NoPlan) =>
        /\ dirty
        /\ plan_devuelto.dates # <<>>
        /\ isoformat(fecha_d) \notin SeqToSet(plan_devuelto.dates)
        /\ plan_devuelto.times = FmtChecadas(_normalize_times(times_edit, modo_seguro)[1])

\* what holds of every plan: a change is pending, the dates are other dates
PlanSoloConCambios ==
    bulk_plan # NoPlan =>
        /\ dirty
        /\ bulk_plan.dates # <<>>
        /\ isoformat(fecha_d) \notin SeqToSet(bulk_plan.dates)
        /\ bulk_plan.source_fecha = isoformat(fecha_d)

\* after a single edit (the log holds it and the SAVE entry) the plan
\* returned carries the saved punches
PlanAlDia ==
    (pc = "guardada" /\ plan_devuelto # NoPlan /\ Len(audit_log) = 2) =>
        plan_devuelto.times = FmtChecadas(_normalize_times(times_edit, modo_seguro)[1])

\* the step is an edit of a mapped event (option 1)
EsEdicionDeEvento ==
    /\ Len(audit_log') = Len(audit_log) + 1
    /\ audit_log'[Len(audit_log')].accion \in {"SET_EVENT", "EDIT_EVENT"}

\* C28: option 1 rebuilds the punch list so that every original punch other
\* than the edited slot's is in it exactly once, for every record, also
\* with more than 6 punches.
C28_NoPunchLost ==
    [][EsEdicionDeEvento =>
          LET e        == audit_log'[Len(audit_log')]
              tn       == _normalize_times(ed_times, modo_seguro)[1]
              before_t == _map_eventos(tn)[e.campo[2]]
              tnew     == e.despues[1] * 60 + e.despues[2]
          IN  \A v \in SeqToSet(ed_times) \cup {tnew} :
                  Veces(ed_times', v) =
                      Veces(ed_times, v) - (IF v = before_t THEN 1 ELSE 0)
                                         + (IF v = tnew THEN 1 ELSE 0)]_vars

\* with at most 6 punches option 1 loses and repeats no punch
SinPerdidaHastaSeis ==
    [][(EsEdicionDeEvento /\ Len(ed_times) <= 6) =>
          LET e        == audit_log'[Len(audit_log')]
              tn       == _normalize_times(ed_times, modo_seguro)[1]
              before_t == _map_eventos(tn)[e.campo[2]]
              tnew     == e.despues[1] * 60 + e.despues[2]
          IN  \A v \in SeqToSet(ed_times) \cup {tnew} :
                  Veces(ed_times', v) =
                      Veces(ed_times, v) - (IF v = before_t THEN 1 ELSE 0)
                                         + (IF v = tnew THEN 1 ELSE 0)]_vars

\* C29: after a revert (option 5) and no further edit the punches and the
\* no-labor intervals are those the editor was opened with, no change is
\* pending and no bulk plan exists (bulk is refused again); a save then
\* returns the original punches, an empty note and no bulk plan.
C29_Revert ==
    UltimaAccion = "REVERT" =>
        /\ ed_times = parse_registro(registro)
        /\ no_labor_list = AbiertoCon
        /\ ~dirty
        /\ bulk_plan = NoPlan
        /\ pc = "guardada" =>
              /\ times_edit = parse_registro(registro)
              /\ nota_final = ""
              /\ plan_devuelto = NoPlan
              /\ no_labor_edit = AbiertoCon

\* an edit of the punches, a revert and a save
C29_Witness ==
    /\ pc = "guardada"
    /\ Len(audit_log) = 2
    /\ audit_log[1].accion \in AccionesDeChecadas
    /\ audit_log[2].accion = "REVERT"
    /\ times_edit = times_snapshot
    /\ Len(times_edit) = 7

\* C30: after leaving without saving (option 0) the audit log has no entry
\* for the edits of punches or of no-labor intervals made in the session.
C30_AuditOnlyEffective ==
    pc = "descartada" =>
        \A i \in 1..Len(audit_log) :
            audit_log[i].accion \notin AccionesDeChecadas \cup AccionesDeNoLabor

====
